---- MODULE Spec2Model ----
(***************************************************************************)
(* A model of windpowerlib: the ModelChain of a single wind turbine, the   *)
(* TurbineClusterModelChain of a wind farm / wind turbine cluster, and the *)
(* helper functions they rest on.                                          *)
(*                                                                         *)
(* Encoding.  Python's None is the integer None (-1); a key that a mapping *)
(* does not hold is Absent (-2).  Heights are naturals.  A time series is  *)
(* its (single) sample, a natural; temperatures are in 1/10000 K so that   *)
(* the gradient 0.0065 K/m is the integer 65.  The results of the          *)
(* transcendental formulas (logarithmic profile, Hellman law, densities,   *)
(* power curves) are records naming the formula and its arguments.         *)
(***************************************************************************)
EXTENDS Integers, Sequences, FiniteSets, TLC

VARIABLES
    mc,             \* the ModelChain object: its parameters and power_output
    wind_turbine,   \* the wind turbine object the ModelChain evaluates
    weather,        \* the caller's weather mapping (shared, mutable)
    data_height,    \* the caller's data_height mapping (shared, mutable)
    mc_call,        \* the last ModelChain call: operation, outcome, stages
    tc,             \* the TurbineClusterModelChain object
    farms,          \* the wind farm objects
    cluster,        \* the wind turbine cluster object (of all the farms)
    tc_call,        \* the last TurbineClusterModelChain call
    sel_args,       \* the arguments of a select_closer_value call
    sel_call,       \* the select_closer_value call: its outcome
    fn_args,        \* the arguments a library function is called with
    fn_call         \* the library function call: its outcome, and the
                    \* caller's objects as the call leaves them

mc_vars == <<mc, wind_turbine, weather, data_height, mc_call>>
tc_vars == <<tc, farms, cluster, tc_call>>
tools_vars == <<sel_args, sel_call>>
fn_vars == <<fn_args, fn_call>>
vars == <<mc, wind_turbine, weather, data_height, mc_call,
          tc, farms, cluster, tc_call, sel_args, sel_call,
          fn_args, fn_call>>

\* ------------------------------------------------------------------ values

None == -1
Absent == -2

\* Bounds of the model.
MaxHeight == 2

Heights == 1..MaxHeight

\* An optional result: <<>> is None, <<x>> is the value x.
NoResult == <<>>
Some(x) == <<x>>

\* ------------------------------------------------- wind_speed.py, density.py

WindValue(f, v, h, hub, z0, d, e) ==
    [f |-> f, v |-> v, h |-> h, hub |-> hub, z0 |-> z0, d |-> d, e |-> e]

Raised(err) == [err |-> err, val |-> NoResult]
Returned(x) == [err |-> "", val |-> Some(x)]

\* The comparison that also holds on equality.
ObstacleAtSensor(obstacle_height, v_wind_height) ==
    7 * obstacle_height >= 10 * v_wind_height

\* if 0.7 * obstacle_height > v_wind_height
ObstacleAboveSensor(obstacle_height, v_wind_height) ==
    7 * obstacle_height > 10 * v_wind_height

\* 0.7 * obstacle_height > v_wind_height raises; otherwise the profile
\* v * ln((hub - 0.7 d) / z0) / ln((h - 0.7 d) / z0).
logarithmic_wind_profile(v_wind, v_wind_height, hub_height, z_0, obstacle_height) ==
    IF ObstacleAboveSensor(obstacle_height, v_wind_height)
    THEN Raised("ValueError")
    ELSE Returned(WindValue("logarithmic", v_wind, v_wind_height, hub_height,
                            z_0, obstacle_height, None))

\* v * (hub / h) ** hellman_exp; the exponent is the one given, else
\* 1/ln(hub/z_0), else (z_0 None: the division raises and is caught) 1/7.
v_wind_hellman(v_wind, v_wind_height, hub_height, hellman_exp, z_0) ==
    IF hellman_exp # None
    THEN Returned(WindValue("hellman_given", v_wind, v_wind_height, hub_height,
                            None, None, hellman_exp))
    ELSE IF z_0 # None
    THEN Returned(WindValue("hellman_z0", v_wind, v_wind_height, hub_height,
                            z_0, None, None))
    ELSE Returned(WindValue("hellman_seventh", v_wind, v_wind_height, hub_height,
                            None, None, None))

\* T_hub = T - 0.0065 * (hub - h), in 1/10000 K.
temperature_gradient(temp_air, temp_height, hub_height) ==
    temp_air - 65 * (hub_height - temp_height)

RhoValue(f, p, ph, hub, t) ==
    [f |-> f, pressure |-> p, pressure_height |-> ph, hub |-> hub, temp_hub |-> t]

rho_barometric(pressure, pressure_height, hub_height, temp_hub) ==
    RhoValue("barometric", pressure, pressure_height, hub_height, temp_hub)

rho_ideal_gas(pressure, pressure_height, hub_height, temp_hub) ==
    RhoValue("ideal_gas", pressure, pressure_height, hub_height, temp_hub)

\* density = None (run_model skips the density stage)
RhoNone == RhoValue("None", None, None, None, None)

\* ------------------------------------------------------------ power output

\* power_output.power_curve / power_output.power_coefficient_curve: the power
\* series evaluated from the hub wind speed, the density (None when the
\* density stage was skipped) and the turbine's curve.
PowerValue(model, wind_speed, density, density_corr) ==
    [model |-> model, wind_speed |-> wind_speed, density |-> density,
     density_corr |-> density_corr]

power_curve(wind_speed, p_values, density, density_corr) ==
    PowerValue("power_curve", wind_speed, density, density_corr)

power_coefficient_curve(wind_speed, cp_values, rotor_diameter, density, density_corr) ==
    PowerValue("power_coefficient_curve", wind_speed, density, density_corr)

\* A quotient num / den of integers, den > 0.
Quotient(num, den) == [num |-> num, den |-> den]

\* np.interp(x, xp, fp) left of xp[0]: fp[0].
InterpLeft(curve) == Quotient(curve[1].P, 1)

\* An interpolation that gives 0 right of the curve.
InterpRightZero(curve) == Quotient(0, 1)

\* np.interp(x, xp, fp) right of xp[-1]: fp[-1].
InterpRight(curve) == Quotient(curve[Len(curve)].P, 1)

\* np.interp(x, p_values.index, p_values.P) on a curve of points (v, P) with
\* increasing v: linear between the two points around x.
interp(x, curve) ==
    IF x >= curve[Len(curve)].v THEN InterpRight(curve)
    ELSE IF x <= curve[1].v THEN InterpLeft(curve)
    ELSE LET k == CHOOSE j \in 1..(Len(curve) - 1) :
                      curve[j].v <= x /\ x < curve[j + 1].v
             den == curve[k + 1].v - curve[k].v
         IN  Quotient(curve[k].P * den
                          + (curve[k + 1].P - curve[k].P) * (x - curve[k].v),
                      den)

\* p_values.index.max()
IndexMax(p_values) ==
    CHOOSE m \in {p_values[k].v : k \in DOMAIN p_values} :
        \A k \in DOMAIN p_values : p_values[k].v <= m

\* power_output.tpo_through_P(p_values, v_wind): the wind speeds above the
\* curve's maximum are overwritten with it in the caller's array, and the
\* curve is interpolated at the array's values.
tpo_through_P(p_values, v_wind) ==
    LET clamped == [i \in DOMAIN v_wind |->
                       IF v_wind[i] > IndexMax(p_values)
                       THEN IndexMax(p_values) ELSE v_wind[i]]
    IN  [power |-> [i \in DOMAIN v_wind |-> interp(clamped[i], p_values)],
         v_wind |-> clamped]

\* np.interp(x, xp, fp, left=0, right=0) on a curve of points (v, P) with
\* increasing v: 0 outside the curve's wind speeds, linear inside.
interp_zero(x, curve) ==
    IF x < curve[1].v \/ x > curve[Len(curve)].v THEN Quotient(0, 1)
    ELSE IF x = curve[Len(curve)].v THEN Quotient(curve[Len(curve)].P, 1)
    ELSE LET k == CHOOSE j \in 1..(Len(curve) - 1) :
                      curve[j].v <= x /\ x < curve[j + 1].v
             den == curve[k + 1].v - curve[k].v
         IN  Quotient(curve[k].P * den
                          + (curve[k + 1].P - curve[k].P) * (x - curve[k].v),
                      den)

\* The densities of air, in eighths of the standard density 1.225 kg/m3:
\* 1.225 / 8, 1.225 and 1.225 * 8, whose ratios to 1.225 have the cube roots
\* 2, 1 and 0.5 in floating point arithmetic as well.
StandardDensity == 8

\* (1.225 / rho_hub[i]) ** np.interp(p_values.index, [7.5, 12.5], [1/3, 2/3])
\* at a wind speed of the curve up to 7.5 m/s, where the exponent is 1/3: the
\* cube root of the ratio, in halves.
DensityShift(rho) ==
    CHOOSE r \in 1..4 : r * r * r * rho = 8 * StandardDensity

\* power_output.interpolate_P_curve(v_wind, rho_hub, p_values): the curve with
\* its wind speeds multiplied by the density shift, interpolated at each wind
\* speed with left=0 and right=0 (both sides in halves of a m/s).
interpolate_P_curve(v_wind, rho_hub, p_values) ==
    [i \in DOMAIN v_wind |->
        interp_zero(2 * v_wind[i],
                    [k \in DOMAIN p_values |->
                        [v |-> p_values[k].v * DensityShift(rho_hub[i]),
                         P |-> p_values[k].P]])]

\* ------------------------------------------------------- height selection

Abs(x) == IF x < 0 THEN -x ELSE x

\* The outcome of select_closer_value: the exception raised ("" if none) and
\* the fields of the named tuple it returns.
Selected(err, closest_value, corresp_value, logging_string) ==
    [err |-> err, closest_value |-> closest_value,
     corresp_value |-> corresp_value, logging_string |-> logging_string]

\* The comparison with a strict inequality instead.
CloserStrictly(value_1, value_2, comp_value) ==
    Abs(value_1 - comp_value) < Abs(value_2 - comp_value)

\* abs(value_1 - comp_value) <= abs(value_2 - comp_value)
CloserOrEqual(value_1, value_2, comp_value) ==
    Abs(value_1 - comp_value) <= Abs(value_2 - comp_value)

\* if closest_value == value_1: corresp_1, else: corresp_2
CorrespValue(closest_value, value_1, corresp_1, corresp_2) ==
    IF closest_value = value_1 THEN corresp_1 ELSE corresp_2

\* tools.select_closer_value. A subtraction with None raises TypeError; the
\* single-candidate branch binds logging_string only if value_1 equals
\* comp_value, and the return statement reads it: UnboundLocalError if not.
select_closer_value(value_1, value_2, comp_value, corresp_1, corresp_2) ==
    IF value_2 # None /\ corresp_2 # None
    THEN IF value_1 = comp_value
         THEN Selected("", value_1,
                       CorrespValue(value_1, value_1, corresp_1, corresp_2),
                       "(at hub height).")
         ELSE IF value_2 = comp_value
         THEN Selected("", value_2,
                       CorrespValue(value_2, value_1, corresp_1, corresp_2),
                       "(2) (at hub height).")
         ELSE IF value_1 = None \/ comp_value = None
         THEN Selected("TypeError", None, None, "")
         ELSE IF CloserOrEqual(value_1, value_2, comp_value)
         THEN Selected("", value_1,
                       CorrespValue(value_1, value_1, corresp_1, corresp_2),
                       "None")
         ELSE Selected("", value_2,
                       CorrespValue(value_2, value_1, corresp_1, corresp_2),
                       "None")
    ELSE IF value_1 = comp_value
         THEN Selected("", value_1,
                       CorrespValue(value_1, value_1, corresp_1, corresp_2),
                       "(at hub height).")
         ELSE Selected("UnboundLocalError", None, None, "")

\* tools.smallest_difference as ModelChain calls it: of the (height, series)
\* candidates the one whose height is closest to comp_value, an exact match
\* first; a single candidate is returned without a distance check; no
\* candidate height at all is an invalid input.
smallest_difference(value_1, corresp_1, value_2, corresp_2, comp_value) ==
    IF value_1 = None /\ value_2 = None
    THEN [err |-> "InvalidInput", height |-> None, series |-> None]
    ELSE IF value_2 = None \/ corresp_2 = None
    THEN [err |-> "", height |-> value_1, series |-> corresp_1]
    ELSE IF value_1 = None \/ corresp_1 = None
    THEN [err |-> "", height |-> value_2, series |-> corresp_2]
    ELSE IF value_1 = comp_value
    THEN [err |-> "", height |-> value_1, series |-> corresp_1]
    ELSE IF value_2 = comp_value
    THEN [err |-> "", height |-> value_2, series |-> corresp_2]
    ELSE IF Abs(value_1 - comp_value) <= Abs(value_2 - comp_value)
    THEN [err |-> "", height |-> value_1, series |-> corresp_1]
    ELSE [err |-> "", height |-> value_2, series |-> corresp_2]

\* ------------------------------------------------------------- ModelChain

\* A method's result: the error raised ("" if it returned), the value
\* returned, and the caller's mappings as the method leaves them.
MethodResult(err, val, w, dh) ==
    [err |-> err, val |-> val, weather |-> w, data_height |-> dh]

\* A chain that never takes a measurement to be at hub height.
NeverAtHubHeight(height, hub_height) == FALSE

\* if v_wind_height == self.wind_turbine.hub_height /
\* if temperature_height == self.wind_turbine.hub_height
AtHubHeight(height, hub_height) == height = hub_height

\* ModelChain.v_wind_hub(weather, data_height)
v_wind_hub(self, turbine, w, dh) ==
    LET missing == w.v_wind_2 = Absent
        w1 == IF missing THEN [w EXCEPT !.v_wind_2 = None] ELSE w
        dh1 == IF missing THEN [dh EXCEPT !.v_wind_2 = None] ELSE dh
        sel == IF missing
               THEN [err |-> "", height |-> dh1.v_wind, series |-> w1.v_wind]
               ELSE smallest_difference(dh1.v_wind, w1.v_wind,
                                        dh1.v_wind_2, w1.v_wind_2,
                                        turbine.hub_height)
        v_wind == IF AtHubHeight(sel.height, turbine.hub_height)
                  THEN Returned(WindValue("measured", sel.series, sel.height,
                                          turbine.hub_height, None, None, None))
                  ELSE IF self.wind_model = "logarithmic"
                  THEN logarithmic_wind_profile(sel.series, sel.height,
                                                turbine.hub_height, w1.z0,
                                                self.obstacle_height)
                  ELSE IF self.wind_model = "hellman"
                  THEN v_wind_hellman(sel.series, sel.height,
                                      turbine.hub_height, w1.z0,
                                      self.hellman_exp)
                  ELSE Raised("ValueError")
    IN  IF sel.err # ""
        THEN MethodResult(sel.err, NoResult, w1, dh1)
        ELSE MethodResult(v_wind.err, v_wind.val, w1, dh1)

\* ModelChain.rho_hub(weather, data_height)
rho_hub(self, turbine, w, dh) ==
    LET missing == w.temp_air_2 = Absent
        w1 == IF missing THEN [w EXCEPT !.temp_air_2 = None] ELSE w
        dh1 == IF missing THEN [dh EXCEPT !.temp_air_2 = None] ELSE dh
        sel == IF missing
               THEN [err |-> "", height |-> dh1.temp_air, series |-> w1.temp_air]
               ELSE smallest_difference(dh1.temp_air, w1.temp_air,
                                        dh1.temp_air_2, w1.temp_air_2,
                                        turbine.hub_height)
        temp_hub == IF AtHubHeight(sel.height, turbine.hub_height)
                    THEN sel.series
                    ELSE temperature_gradient(sel.series, sel.height,
                                              turbine.hub_height)
    IN  IF sel.err # ""
        THEN MethodResult(sel.err, NoResult, w1, dh1)
        ELSE IF self.rho_model = "barometric"
        THEN MethodResult("", Some(rho_barometric(w1.pressure, dh1.pressure,
                                                  turbine.hub_height, temp_hub)),
                          w1, dh1)
        ELSE IF self.rho_model = "ideal_gas"
        THEN MethodResult("", Some(rho_ideal_gas(w1.pressure, dh1.pressure,
                                                 turbine.hub_height, temp_hub)),
                          w1, dh1)
        ELSE MethodResult("ValueError", NoResult, w1, dh1)

\* ModelChain.turbine_power_output(wind_speed, density)
\* A turbine whose missing curve goes unnoticed.
MissingCurveIgnored(curve) == FALSE

\* if self.wind_turbine.cp_values is None / .p_values is None
MissingCurve(curve) == curve = None

turbine_power_output(self, turbine, wind_speed, density) ==
    IF self.power_output_model = "cp_values"
    THEN IF MissingCurve(turbine.cp_values)
         THEN Raised("TypeError")
         ELSE Returned(power_coefficient_curve(wind_speed, turbine.cp_values,
                                               turbine.rotor_diameter, density,
                                               self.density_corr))
    ELSE IF self.power_output_model = "p_values"
    THEN IF MissingCurve(turbine.p_values)
         THEN Raised("TypeError")
         ELSE Returned(power_curve(wind_speed, turbine.p_values, density,
                                   self.density_corr))
    ELSE Raised("ValueError")

\* Whether run_model calls rho_hub.
NeedsDensity(self) ==
    ~(self.power_output_model = "p_values" /\ self.density_corr = FALSE)

\* ModelChain.run_model(weather, data_height): the error raised, the stages
\* that returned a result, self.power_output and the caller's mappings after
\* the call.
RunResult(err, stages, out, w, dh) ==
    [err |-> err, stages |-> stages, power_output |-> out,
     weather |-> w, data_height |-> dh]

\* A run that raised and cleared the field.
KeepOutputReset(self) == NoResult

\* self.power_output after a run that raised: the assignment at the end of
\* run_model is not reached, the field keeps its value.
KeepOutput(self) == self.power_output

\* A run that added its output to the field's earlier value.
StoreOutputAppend(self, output) == self.power_output \o <<output>>

\* self.power_output = output: the field is overwritten.
StoreOutput(self, output) == Some(output)

run_model(self, turbine, w, dh) ==
    LET ws == v_wind_hub(self, turbine, w, dh)
        rho == IF NeedsDensity(self)
               THEN rho_hub(self, turbine, ws.weather, ws.data_height)
               ELSE MethodResult("", Some(RhoNone), ws.weather, ws.data_height)
        rho_stage == IF NeedsDensity(self) THEN <<"rho_hub">> ELSE <<>>
        out == turbine_power_output(self, turbine, ws.val[1], rho.val[1])
    IN  IF ws.err # ""
        THEN RunResult(ws.err, <<>>, KeepOutput(self),
                       ws.weather, ws.data_height)
        ELSE IF rho.err # ""
        THEN RunResult(rho.err, <<"v_wind_hub">>, KeepOutput(self),
                       rho.weather, rho.data_height)
        ELSE IF out.err # ""
        THEN RunResult(out.err, <<"v_wind_hub">> \o rho_stage,
                       KeepOutput(self), rho.weather, rho.data_height)
        ELSE RunResult("", <<"v_wind_hub">> \o rho_stage \o <<"turbine_power_output">>,
                       StoreOutput(self, out.val[1]),
                       rho.weather, rho.data_height)

\* ------------------------------------------------------------ wind_farm.py

\* WindFarm.__init__
WindFarmInit(object_name, wind_turbine_fleet) ==
    [object_name |-> object_name, wind_turbine_fleet |-> wind_turbine_fleet,
     hub_height |-> NoResult, installed_power |-> NoResult,
     power_curve |-> NoResult, power_output |-> NoResult]

\* sum(nominal_power * number_of_turbines for ... in wind_turbine_fleet)
total_nominal_power(fleet) ==
    LET S[k \in 0..Len(fleet)] ==
            IF k = 0 THEN 0
            ELSE S[k - 1] + fleet[k].wind_turbine.nominal_power
                            * fleet[k].number_of_turbines
    IN  S[Len(fleet)]

\* The weight nominal_power * number_of_turbines that ln(h) carries in
\* sum(ln(hub_height) * nominal_power * number_of_turbines for ...).
HeightWeight(fleet, h) ==
    LET S[k \in 0..Len(fleet)] ==
            IF k = 0 THEN 0
            ELSE S[k - 1] + (IF fleet[k].wind_turbine.hub_height = h
                             THEN fleet[k].wind_turbine.nominal_power
                                  * fleet[k].number_of_turbines
                             ELSE 0)
    IN  S[Len(fleet)]

\* The greatest common divisor of the positive numbers among w[h].
CommonDivisor(w) ==
    LET top == CHOOSE n \in {w[h] : h \in DOMAIN w} :
                   \A h \in DOMAIN w : w[h] <= n
    IN  CHOOSE d \in 1..top :
            /\ \A h \in DOMAIN w : w[h] % d = 0
            /\ \A e \in 1..top : (\A h \in DOMAIN w : w[h] % e = 0) => e <= d

\* The hub heights of the turbines.
HubHeights == 1..(MaxHeight + 1)

\* np.exp(np.log(h)) in IEEE double arithmetic, as the number of units in the
\* last place by which it differs from h, for h = 1, 2, ...: ln(1) is 0 and
\* exp(0) is 1; ln(3) rounds to a double whose exponential rounds to the
\* double above 3, 3.0000000000000004.
ExpLogUlps == <<0, 0, 1, 0, -1>>

\* The hub height h as a floating point number, without rounding error.
ExactHeight(h) ==
    [nan |-> FALSE, w |-> [k \in HubHeights |-> IF k = h THEN 1 ELSE 0],
     ulps |-> 0]

\* The rounding of np.exp(ln_sum / total_nominal_power): that of
\* np.exp(np.log(h)) if h is the only hub height with a weight (the
\* quotient is then ln(h), its own rounding left aside), none counted for a
\* mean of several heights.
MeanUlps(w) ==
    IF \E h \in DOMAIN w : w[h] > 0 /\ \A k \in DOMAIN w : k # h => w[k] = 0
    THEN ExpLogUlps[CHOOSE h \in DOMAIN w : w[h] > 0]
    ELSE 0

\* exp(sum(ln(h_k) * P_k * n_k) / sum(P_k * n_k)) as the share of each height
\* in the weighted mean of the logarithms, in lowest terms, with the rounding
\* of the result.
LogMean(fleet) ==
    LET w == [h \in HubHeights |-> HeightWeight(fleet, h)]
        g == CommonDivisor(w)
    IN  [nan |-> FALSE, w |-> [h \in HubHeights |-> w[h] \div g],
         ulps |-> MeanUlps(w)]

\* 0.0 / 0 in numpy floating point: nan, with a warning and no exception
NaN == [nan |-> TRUE, w |-> [h \in HubHeights |-> 0], ulps |-> 0]

\* WindFarm.mean_hub_height(): the hub height assigned, or the error raised.
\* The sum over an empty fleet is the integer 0, and 0 / 0 raises; over a
\* fleet of nominal power 0 the numerator is a numpy float, and 0.0 / 0 is nan.
mean_hub_height(farm) ==
    IF Len(farm.wind_turbine_fleet) = 0
    THEN Raised("ZeroDivisionError")
    ELSE IF total_nominal_power(farm.wind_turbine_fleet) = 0
    THEN Returned(NaN)
    ELSE Returned(LogMean(farm.wind_turbine_fleet))

\* A farm that keeps the hub height it was assigned before.
FarmAfterMeanHubHeightCached(farm, m) ==
    [err |-> m.err,
     farm |-> IF m.err = "" /\ farm.hub_height = NoResult
              THEN [farm EXCEPT !.hub_height = m.val] ELSE farm]

\* WindFarm.mean_hub_height() on the farm object: the error raised and the
\* farm as the call leaves it.
FarmAfterMeanHubHeight(farm, m) ==
    [err |-> m.err,
     farm |-> IF m.err = "" THEN [farm EXCEPT !.hub_height = m.val] ELSE farm]

\* WindFarm.calculate_installed_power(): returns self, assigns nothing.
calculate_installed_power(farm) == farm

\* WindFarm.get_installed_power(): sum of nominal_power * number_of_turbines
get_installed_power(farm) == total_nominal_power(farm.wind_turbine_fleet)

\* ---------------------------------------------------------- power_curves.py

\* A power curve: the level it belongs to, the curves it sums, the levels at
\* which it was smoothed (in order) and the wake losses method applied.
CurveValue(level, parts, smoothed, wake) ==
    [level |-> level, parts |-> parts, smoothed |-> smoothed, wake |-> wake]

\* smooth_power_curve(..., standard_deviation_method, **kwargs): the
\* normalized standard deviation is taken from kwargs['turbulence_intensity']
\* (ValueError if absent) or is that of Staffell and Pfenninger; any other
\* method leaves it unbound, and its first use raises.
smooth_power_curve(curve, level, standard_deviation_method, kwargs) ==
    IF standard_deviation_method = "turbulence_intensity"
           /\ "turbulence_intensity" \notin kwargs
    THEN Raised("ValueError")
    ELSE IF standard_deviation_method
                \notin {"turbulence_intensity", "Staffell_Pfenninger"}
    THEN Raised("UnboundLocalError")
    ELSE Returned([curve EXCEPT !.smoothed = @ \o <<level>>])

\* The smoothing's wind speeds, block width and wind speed range are counted
\* in steps of 0.5 m/s. A floating point value is known by its class: "nan",
\* "zero" or "positive" (a finite number >= 0).

\* The while loop of smooth_power_curve: wind speeds 0.5 m/s apart with power
\* 0.0 are appended until the last one reaches the curve's last wind speed
\* plus wind_speed_range.
ExtendedCurve(curve, wind_speed_range) ==
    curve \o [k \in 1..wind_speed_range |->
                 [v |-> curve[Len(curve)].v + k, P |-> 0]]

\* np.arange(-wind_speed_range, wind_speed_range + block_width, block_width)
\* + power_curve_wind_speed
wind_speeds_block(power_curve_wind_speed, block_width, wind_speed_range) ==
    [k \in 1..((2 * wind_speed_range + block_width - 1) \div block_width + 1) |->
        power_curve_wind_speed - wind_speed_range + (k - 1) * block_width]

\* The normalized standard deviation in hundredths: the turbulence intensity
\* given, or 0.2.
normalized_standard_deviation(standard_deviation_method, turbulence_intensity) ==
    IF standard_deviation_method = "Staffell_Pfenninger" THEN 20
    ELSE turbulence_intensity

\* The standard deviation of the gaussian filter, in 1/200 m/s: the wind speed
\* times the normalized standard deviation, plus 0.6 if
\* standard_deviation_method is 'Staffell_Pfenninger': a comparison of object
\* identity, which holds of an equal string only if it is the same object as
\* the literal (same_object).
standard_deviation(power_curve_wind_speed, standard_deviation_method, same_object, normalized) ==
    IF standard_deviation_method = "Staffell_Pfenninger" /\ same_object
    THEN power_curve_wind_speed * normalized + 120
    ELSE power_curve_wind_speed * normalized

\* tools.gaussian_distribution(function_variable, standard_deviation, mean):
\* the density of the normal distribution, not defined (NaN) for the
\* standard deviation 0.
gaussian_distribution(function_variable, sigma, mean) ==
    IF sigma = 0 THEN "nan" ELSE "positive"

\* block_width * np.interp(...) * tools.gaussian_distribution(...): a product
\* with NaN is NaN, a product with 0.0 is 0.0.
BlockTerm(interpolated, gaussian) ==
    IF gaussian = "nan" THEN "nan"
    ELSE IF interpolated.num = 0 THEN "zero"
    ELSE "positive"

\* sum(... for wind_speed in wind_speeds_block): NaN if a term is, else the
\* sum of the non-negative terms.
BlockSum(terms) ==
    IF \E k \in DOMAIN terms : terms[k] = "nan" THEN "nan"
    ELSE IF \E k \in DOMAIN terms : terms[k] = "positive" THEN "positive"
    ELSE "zero"

\* A smoothed value appended as it is.
AppendedUncoerced(smoothed_value) == smoothed_value

\* smoothed_power_curve_values.append(0 if np.isnan(smoothed_value)
\*                                    else smoothed_value)
Appended(smoothed_value) ==
    IF smoothed_value = "nan" THEN "zero" ELSE smoothed_value

\* The smoothed value at one wind speed of the extended curve.
smoothed_value(extended, v, block, sigma) ==
    BlockSum([k \in DOMAIN block |->
                 BlockTerm(interp_zero(block[k], extended),
                           gaussian_distribution(v - block[k], sigma, 0))])

\* The rows of smoothed_power_curve_df: the extended curve's wind speeds with
\* the smoothed power values.
smoothed_power_curve_df(extended, block_width, wind_speed_range, standard_deviation_method, same_object, normalized) ==
    [i \in DOMAIN extended |->
        [wind_speed |-> extended[i].v,
         power |-> Appended(smoothed_value(
                       extended, extended[i].v,
                       wind_speeds_block(extended[i].v, block_width,
                                         wind_speed_range),
                       standard_deviation(extended[i].v,
                                          standard_deviation_method,
                                          same_object, normalized)))]]

\* A row of a power curve data frame.
CurveRow(wind_speed, power) == [wind_speed |-> wind_speed, power |-> power]

\* A wind farm efficiency argument: its Python type, its value (in tenths
\* for a float) if it is a number, its rows (v, efficiency in tenths) if it
\* is a dictionary or a data frame.
Efficiency(type, value, rows) == [type |-> type, value |-> value, rows |-> rows]

\* A power value left as it is.
UnscaledPower(value, efficiency) == Quotient(value * 10, 10)

\* power_curve_values * wind_farm_efficiency, the efficiency in tenths
ScaledPower(value, efficiency) == Quotient(value * efficiency, 10)

\* df['efficiency'].interpolate(method='index') at the wind speed v of the
\* joined frame, in tenths: linear in v between the efficiency curve's
\* points, the last point's value after them; before the first point the
\* value stays NaN (no result).
InterpolatedEfficiency(rows, v) ==
    IF v < rows[1].v THEN NoResult
    ELSE IF v >= rows[Len(rows)].v THEN Some(Quotient(rows[Len(rows)].e, 1))
    ELSE LET k == CHOOSE j \in 1..(Len(rows) - 1) :
                      rows[j].v <= v /\ v < rows[j + 1].v
             den == rows[k + 1].v - rows[k].v
         IN  Some(Quotient(rows[k].e * den
                               + (rows[k + 1].e - rows[k].e) * (v - rows[k].v),
                           den))

\* The rows of reduced_power.dropna(): the power curve's rows that have an
\* interpolated efficiency, with power * efficiency.
ReducedRows(curve, rows) ==
    LET kept == SelectSeq(curve,
                          LAMBDA pt : InterpolatedEfficiency(rows, pt.v) # NoResult)
    IN  [i \in DOMAIN kept |->
            LET e == InterpolatedEfficiency(rows, kept[i].v)[1]
            IN  CurveRow(kept[i].v, Quotient(kept[i].P * e.num, e.den * 10))]

\* power_curves.wake_losses_to_power_curve(power_curve_wind_speeds,
\* power_curve_values, wake_losses_method, wind_farm_efficiency) on the curve
\* of points (v, P): the error raised or the rows of the returned frame. A
\* dictionary passes the type check and has no set_index: AttributeError.
wake_losses_to_power_curve(curve, wake_losses_method, wind_farm_efficiency) ==
    IF wake_losses_method = "constant_efficiency"
    THEN IF wind_farm_efficiency.type # "float"
         THEN Raised("TypeError")
         ELSE Returned([i \in DOMAIN curve |->
                           CurveRow(curve[i].v,
                                    ScaledPower(curve[i].P,
                                                wind_farm_efficiency.value))])
    ELSE IF wake_losses_method = "power_efficiency_curve"
    THEN IF wind_farm_efficiency.type \notin {"dict", "DataFrame"}
         THEN Raised("TypeError")
         ELSE IF wind_farm_efficiency.type = "dict"
         THEN Raised("AttributeError")
         ELSE Returned(ReducedRows(curve, wind_farm_efficiency.rows))
    ELSE Raised("ValueError")

\* ----------------------------------------------------------- wake_losses.py

\* A curve name is the sequence of its underscores and of the texts between
\* them: 'dena_mean' is <<"dena", "_", "mean">>, '' is <<>>.
\* curve_name.split('_')[0]: the text before the first underscore.
SplitFirst(curve_name) ==
    IF curve_name = <<>> THEN ""
    ELSE IF curve_name[1] = "_" THEN ""
    ELSE curve_name[1]

\* The columns of data/wind_efficiency_curves_dena.csv and
\* data/wind_efficiency_curves_knorr.csv: the wind speed and the tabulated
\* curves.
WindEfficiencyCurvesFile(origin) ==
    IF origin = "dena"
    THEN {<<"wind", "_", "speed">>, <<"dena", "_", "mean">>, <<"dena", "_", "extreme1">>,
          <<"dena", "_", "extreme2">>}
    ELSE {<<"wind", "_", "speed">>, <<"knorr", "_", "mean">>, <<"knorr", "_", "extreme1">>,
          <<"knorr", "_", "extreme2">>, <<"knorr", "_", "extreme3">>}

\* A file in which every name is found.
ColumnAlwaysFound(curve_name, wind_efficiency_curves) == FALSE

\* if curve_name not in list(wind_efficiency_curves)
ColumnMissing(curve_name, wind_efficiency_curves) ==
    curve_name \notin wind_efficiency_curves

\* wake_losses.get_wind_efficiency_curve(curve_name): the frame of the columns
\* 'wind_speed' and 'efficiency' of the named curve.
get_wind_efficiency_curve(curve_name) ==
    IF SplitFirst(curve_name) \notin {"dena", "knorr"}
    THEN Raised("ValueError")
    ELSE IF ColumnMissing(curve_name,
                          WindEfficiencyCurvesFile(SplitFirst(curve_name)))
    THEN Raised("ValueError")
    ELSE Returned([columns |-> <<"wind_speed", "efficiency">>,
                   wind_speed |-> <<"wind", "_", "speed">>,
                   efficiency |-> curve_name])

\* wake_losses.reduce_wind_speed(wind_speed, wind_efficiency_curve_name):
\* wind_speed * np.interp(wind_speed, curve['wind_speed'], curve['efficiency'])
reduce_wind_speed(wind_speed, wind_efficiency_curve_name) ==
    LET wind_efficiency_curve ==
            get_wind_efficiency_curve(wind_efficiency_curve_name)
    IN  IF wind_efficiency_curve.err # ""
        THEN Raised(wind_efficiency_curve.err)
        ELSE Returned([f |-> "reduced", wind_speed |-> wind_speed,
                       efficiency |-> wind_efficiency_curve.val[1].efficiency])

\* --------------------------------------------- turbine_cluster_modelchain.py

\* TurbineClusterModelChain.__init__: the fields are set, then a WindFarm
\* with smoothing_order 'cluster_power_curve' raises ValueError.
ChainFields(status, kind, wake_losses_method, smoothing, standard_deviation_method, smoothing_order) ==
    [status |-> status, kind |-> kind,
     wake_losses_method |-> wake_losses_method, smoothing |-> smoothing,
     standard_deviation_method |-> standard_deviation_method,
     smoothing_order |-> smoothing_order, power_output |-> NoResult]

\* The construction without the check of smoothing_order.
TurbineClusterModelChainInitUnchecked(kind, wake_losses_method, smoothing, standard_deviation_method, smoothing_order) ==
    ChainFields("constructed", kind, wake_losses_method, smoothing,
                standard_deviation_method, smoothing_order)

\* TurbineClusterModelChain.__init__: the fields are set, and ValueError is
\* raised for a WindFarm with smoothing_order 'cluster_power_curve'.
TurbineClusterModelChainInit(kind, wake_losses_method, smoothing, standard_deviation_method, smoothing_order) ==
    IF kind = "WindFarm" /\ smoothing_order = "cluster_power_curve"
    THEN ChainFields("raised", kind, wake_losses_method, smoothing,
                     standard_deviation_method, smoothing_order)
    ELSE ChainFields("constructed", kind, wake_losses_method, smoothing,
                     standard_deviation_method, smoothing_order)

\* The curve of one fleet entry, smoothed if the chain smooths the single
\* turbine power curves.
TurbineCurve(self, entry, kwargs) ==
    LET c == CurveValue("turbine", <<>>, <<>>, "None")
    IN  IF self.smoothing /\ self.smoothing_order = "turbine_power_curves"
        THEN smooth_power_curve(c, "turbine", self.standard_deviation_method,
                                kwargs)
        ELSE Returned(c)

\* TurbineClusterModelChain.wind_farm_power_curve(farm, **kwargs): the sum of
\* the fleet's turbine power curves, with the wake losses of the chain's
\* method, smoothed if the chain smooths the wind farm power curves.
FarmCurveOf(self, farm, tcs, kwargs) ==
    IF Len(tcs) = 0
    THEN Raised("ValueError")
    ELSE IF \E k \in DOMAIN tcs : tcs[k].err # ""
    THEN Raised(tcs[CHOOSE k \in DOMAIN tcs : tcs[k].err # ""].err)
    ELSE IF self.smoothing /\ self.smoothing_order = "wind_farm_power_curves"
    THEN smooth_power_curve(
             CurveValue("farm", [k \in DOMAIN tcs |-> tcs[k].val[1]], <<>>,
                        self.wake_losses_method),
             "farm", self.standard_deviation_method, kwargs)
    ELSE Returned(CurveValue("farm", [k \in DOMAIN tcs |-> tcs[k].val[1]],
                             <<>>, self.wake_losses_method))

wind_farm_power_curve(self, farm, kwargs) ==
    FarmCurveOf(self, farm,
                [k \in 1..Len(farm.wind_turbine_fleet) |->
                    TurbineCurve(self, farm.wind_turbine_fleet[k], kwargs)],
                kwargs)

\* The farms after a loop over them that raised err ("" if it completed).
LoopResult(err, fs) == [err |-> err, farms |-> fs]

\* The index of the first iteration of a loop that raises (errs[k] # ""),
\* one past the last if none does.
FirstError(errs) ==
    IF \E k \in DOMAIN errs : errs[k] # ""
    THEN CHOOSE k \in DOMAIN errs :
            errs[k] # "" /\ \A j \in DOMAIN errs : errs[j] # "" => k <= j
    ELSE Len(errs) + 1

\* for farm in self.wind_object.wind_farms:
\*     farm.power_curve = self.wind_farm_power_curve(farm, **kwargs)
\* The farms before the first one that raises have their curve assigned.
CurvesUpTo(fs, c, stop) ==
    LoopResult(IF stop > Len(fs) THEN "" ELSE c[stop].err,
               [k \in 1..Len(fs) |->
                   IF k < stop THEN [fs[k] EXCEPT !.power_curve = c[k].val]
                   ELSE fs[k]])

CurvesAssigned(fs, c) ==
    CurvesUpTo(fs, c, FirstError([k \in 1..Len(fs) |-> c[k].err]))

AssignFarmCurves(self, fs, kwargs) ==
    CurvesAssigned(fs, [k \in 1..Len(fs) |->
                           wind_farm_power_curve(self, fs[k], kwargs)])

\* TurbineClusterModelChain.turbine_cluster_power_curve(**kwargs): the farms
\* get their curves, the curves are summed, and the sum is smoothed (with
\* smooth_power_curve's default method) if the cluster curve is to be.
CurveWithFarms(c, fs) == [err |-> c.err, val |-> c.val, farms |-> fs]

SummedCurve(fs) ==
    CurveValue("cluster", [k \in 1..Len(fs) |-> fs[k].power_curve[1]], <<>>,
               "None")

\* The sum smoothed whenever the chain smooths, whatever the order.
ClusterCurveOfAnyOrder(self, assigned, kwargs) ==
    IF assigned.err # ""
    THEN CurveWithFarms(Raised(assigned.err), assigned.farms)
    ELSE IF self.smoothing
    THEN CurveWithFarms(smooth_power_curve(SummedCurve(assigned.farms),
                                           "cluster", "turbulence_intensity",
                                           kwargs),
                        assigned.farms)
    ELSE CurveWithFarms(Returned(SummedCurve(assigned.farms)), assigned.farms)

ClusterCurveOf(self, assigned, kwargs) ==
    IF assigned.err # ""
    THEN CurveWithFarms(Raised(assigned.err), assigned.farms)
    ELSE IF self.smoothing /\ self.smoothing_order = "cluster_power_curve"
    THEN CurveWithFarms(smooth_power_curve(SummedCurve(assigned.farms),
                                           "cluster", "turbulence_intensity",
                                           kwargs),
                        assigned.farms)
    ELSE CurveWithFarms(Returned(SummedCurve(assigned.farms)), assigned.farms)

turbine_cluster_power_curve(self, fs, kwargs) ==
    ClusterCurveOf(self, AssignFarmCurves(self, fs, kwargs), kwargs)

\* for farm in self.wind_object.wind_farms:
\*     farm.mean_hub_height()
\*     farm.installed_power = farm.get_installed_power()
HubsUpTo(fs, m, stop) ==
    LoopResult(IF stop > Len(fs) THEN "" ELSE m[stop].err,
               [k \in 1..Len(fs) |->
                   IF k < stop
                   THEN [fs[k] EXCEPT
                            !.hub_height = m[k].val,
                            !.installed_power = Some(get_installed_power(fs[k]))]
                   ELSE fs[k]])

HubsAssigned(fs, m) ==
    HubsUpTo(fs, m, FirstError([k \in 1..Len(fs) |-> m[k].err]))

AssignFarmHubs(fs) ==
    HubsAssigned(fs, [k \in 1..Len(fs) |-> mean_hub_height(fs[k])])

\* sum(farm.installed_power for farm in wind_farms)
cluster_installed_power(fs) ==
    LET S[k \in 0..Len(fs)] ==
            IF k = 0 THEN 0 ELSE S[k - 1] + fs[k].installed_power[1]
    IN  S[Len(fs)]

\* WindTurbineCluster.mean_hub_height(): the farms' hub heights weighted by
\* their installed power, as a farm weights its turbines; a total installed
\* power of zero is an invalid input.
cluster_mean_hub_height(fs) ==
    IF cluster_installed_power(fs) = 0
    THEN Raised("InvalidInput")
    ELSE Returned([k \in 1..Len(fs) |->
                      [hub_height |-> fs[k].hub_height[1],
                       installed_power |-> fs[k].installed_power[1]]])

\* The entities after a method of the chain: the error raised, the farms and
\* the cluster as the method leaves them.
EntityResult(err, fs, cl) == [err |-> err, farms |-> fs, cluster |-> cl]

\* self.wind_object.power_curve = self.wind_farm_power_curve(...): the farm
\* keeps the hub height it was given if the curve raises.
FarmCurveAssigned(fs1, cl, c) ==
    IF c.err # "" THEN EntityResult(c.err, fs1, cl)
    ELSE EntityResult("", [fs1 EXCEPT ![1].power_curve = c.val], cl)

FarmHubAssigned(self, fs, cl, m, kwargs) ==
    IF m.err # "" THEN EntityResult(m.err, fs, cl)
    ELSE FarmCurveAssigned(
             [fs EXCEPT ![1].hub_height = m.val], cl,
             wind_farm_power_curve(self, [fs[1] EXCEPT !.hub_height = m.val],
                                   kwargs))

\* TurbineClusterModelChain.assign_power_curve(**kwargs) on a WindFarm (the
\* first farm): its mean hub height, then its power curve.
assign_power_curve_farm(self, fs, cl, kwargs) ==
    FarmHubAssigned(self, fs, cl, mean_hub_height(fs[1]), kwargs)

\* self.wind_object.power_curve = self.turbine_cluster_power_curve(...)
ClusterCurveAssigned(cl1, c) ==
    IF c.err # "" THEN EntityResult(c.err, c.farms, cl1)
    ELSE EntityResult("", c.farms, [cl1 EXCEPT !.power_curve = c.val])

\* self.wind_object.mean_hub_height()
ClusterHubAssigned(self, fs, cl, m, kwargs) ==
    IF m.err # "" THEN EntityResult(m.err, fs, cl)
    ELSE ClusterCurveAssigned([cl EXCEPT !.hub_height = m.val],
                              turbine_cluster_power_curve(self, fs, kwargs))

FarmHubsAssigned(self, hubs, cl, kwargs) ==
    IF hubs.err # "" THEN EntityResult(hubs.err, hubs.farms, cl)
    ELSE ClusterHubAssigned(self, hubs.farms, cl,
                            cluster_mean_hub_height(hubs.farms), kwargs)

\* assign_power_curve on a WindTurbineCluster: every farm's hub height and
\* installed power, the cluster's mean hub height, the cluster's power curve.
assign_power_curve_cluster(self, fs, cl, kwargs) ==
    FarmHubsAssigned(self, AssignFarmHubs(fs), cl, kwargs)

assign_power_curve(self, fs, cl, kwargs) ==
    IF self.kind = "WindFarm"
    THEN assign_power_curve_farm(self, fs, cl, kwargs)
    ELSE assign_power_curve_cluster(self, fs, cl, kwargs)

\* get_modelchain_data(**kwargs): the keyword arguments passed on to
\* ModelChain.
get_modelchain_data(kwargs) ==
    kwargs \cap {"wind_speed_model", "temperature_model", "density_model",
                 "power_output_model", "density_correction",
                 "obstacle_height", "hellman_exp"}

\* The ModelChain of the delegated run: __init__'s defaults.
DelegatedChain ==
    [obstacle_height |-> 0, wind_model |-> "logarithmic",
     rho_model |-> "barometric", power_output_model |-> "p_values",
     density_corr |-> FALSE, hellman_exp |-> None, power_output |-> NoResult]

\* The stages of ModelChain.run_model when each of them returns.
RunModelStages(self) ==
    <<"v_wind_hub">> \o (IF NeedsDensity(self) THEN <<"rho_hub">> ELSE <<>>)
                     \o <<"turbine_power_output">>

\* modelchain.ModelChain(self.wind_object, **modelchain_data).run_model(
\* weather_df): a keyword __init__ does not take raises TypeError, and so
\* does a call that does not bind every parameter of run_model, before the
\* method's body is entered. The stages entered and those that returned.
\* The keyword parameters of ModelChain.__init__ are obstacle_height,
\* wind_model, rho_model, power_output_model, density_corr and hellman_exp;
\* the parameters of run_model are weather and data_height.
delegated_run(modelchain_data, arguments) ==
    IF ~(modelchain_data \subseteq
            {"obstacle_height", "wind_model", "rho_model",
             "power_output_model", "density_corr", "hellman_exp"})
    THEN [err |-> "TypeError", entered |-> <<"ModelChain">>, stages |-> <<>>,
          val |-> NoResult]
    ELSE IF Len(arguments) # Len(<<"weather", "data_height">>)
    THEN [err |-> "TypeError", entered |-> <<"ModelChain">>,
          stages |-> <<"ModelChain">>, val |-> NoResult]
    ELSE [err |-> "",
          entered |-> <<"ModelChain">> \o RunModelStages(DelegatedChain),
          stages |-> <<"ModelChain">> \o RunModelStages(DelegatedChain),
          val |-> Some("mc.power_output")]

\* TurbineClusterModelChain.run_model(weather_df, **kwargs)
RunAfterAssign(self, a, d) ==
    IF a.err # ""
    THEN [err |-> a.err, entered |-> <<"assign_power_curve">>,
          stages |-> <<>>, farms |-> a.farms,
          cluster |-> a.cluster, power_output |-> self.power_output]
    ELSE [err |-> d.err, entered |-> <<"assign_power_curve">> \o d.entered,
          stages |-> <<"assign_power_curve">> \o d.stages,
          farms |-> a.farms, cluster |-> a.cluster,
          power_output |-> IF d.err = "" THEN d.val ELSE self.power_output]

cluster_run_model(self, fs, cl, kwargs) ==
    RunAfterAssign(self, assign_power_curve(self, fs, cl, kwargs),
                   delegated_run(get_modelchain_data(kwargs), <<"weather_df">>))

\* ------------------------------------------------- the ModelChain's inputs

\* ModelChain.__init__: the parameters as given, power_output None.
ModelChainInit(obstacle_height, wind_model, rho_model, power_output_model, density_corr, hellman_exp) ==
    [obstacle_height |-> obstacle_height, wind_model |-> wind_model,
     rho_model |-> rho_model, power_output_model |-> power_output_model,
     density_corr |-> density_corr, hellman_exp |-> hellman_exp,
     power_output |-> NoResult]

\* The wind turbines: a hub height, and a power curve and a cp curve that
\* may each be missing (None).
WindTurbines ==
    [hub_height : Heights, rotor_diameter : {90}, p_values : {None, 1},
     cp_values : {None, 1}, power_output : {NoResult}]

\* The weather a caller passes: one or two wind speed series, one or two
\* temperature series, pressure and roughness length, with their heights.
WeatherInputs ==
    { [weather |-> [v_wind |-> 5,
                    v_wind_2 |-> IF h2 = Absent THEN Absent ELSE 7,
                    temp_air |-> 2800000,
                    temp_air_2 |-> IF t2 = Absent THEN Absent ELSE 2790000,
                    pressure |-> 101325, z0 |-> 1],
       data_height |-> [v_wind |-> h1, v_wind_2 |-> h2,
                        temp_air |-> t1, temp_air_2 |-> t2,
                        pressure |-> 0, z0 |-> 0]] :
      h1 \in Heights, h2 \in Heights \cup {Absent},
      t1 \in {1, MaxHeight}, t2 \in {MaxHeight, Absent} }

NoCall == [op |-> "none", err |-> "", stages |-> <<>>, val |-> NoResult]

\* ---------------------------------------------- the cluster chain's inputs

\* The fleet entries: one turbine of a type with a hub height and a nominal
\* power that may be zero.
FleetEntries ==
    [wind_turbine : [hub_height : Heights, nominal_power : {0, 3}],
     number_of_turbines : {1}]

\* The fleets: none, one or two turbine types.
Fleets ==
    {<<>>} \cup {<<e>> : e \in FleetEntries}
           \cup {<<e1, e2>> : e1 \in FleetEntries, e2 \in FleetEntries}

\* The fleets of the second farm: none or one turbine type.
SingleTypeFleets == {f \in Fleets : Len(f) <= 1}

\* WindTurbineCluster.__init__
WindTurbineClusterInit ==
    [hub_height |-> NoResult, installed_power |-> NoResult,
     power_curve |-> NoResult, power_output |-> NoResult]

Kwargs == SUBSET {"turbulence_intensity", "wind_speed_model"}

NoChain == ChainFields("none", "None", "None", FALSE, "None", "None")

\* --------------------------------------------- select_closer_value's inputs

\* The heights and the comparative value: None or a height from 0 up.
SelectHeights == {None} \cup (0..MaxHeight)

\* The corresponding values: None or one of two series (the sample wind
\* speeds of the weather).
SelectSeries == {None, 5, 7}

SelectArguments ==
    [value_1 : SelectHeights, value_2 : SelectHeights,
     comp_value : SelectHeights, corresp_1 : SelectSeries,
     corresp_2 : SelectSeries]

NoSelection == [op |-> "none", result |-> Selected("", None, None, "")]

\* ------------------------------------------- the library functions' inputs

\* The wind speeds of the wind speed arrays.
WindSpeeds == 0..(MaxHeight + 2)

\* The power curves: points (v, P) at increasing wind speeds v from 1 to
\* MaxHeight + 1.
PowerCurves ==
    { c \in UNION { [1..n -> [v : 1..(MaxHeight + 1), P : {0, 2, 4}]] :
                    n \in 1..(MaxHeight + 1) } :
        \A k \in 1..(Len(c) - 1) : c[k].v < c[k + 1].v }

\* The wind speed arrays: one or two values.
WindSpeedArrays == UNION { [1..n -> WindSpeeds] : n \in 1..2 }

TpoThroughPArguments ==
    [fn : {"tpo_through_P"}, p_values : PowerCurves, v_wind : WindSpeedArrays]

\* interpolate_P_curve's arguments: the density (an eighth of, the same as or
\* eight times the standard density) is the same at every time step.
InterpolatePCurveArguments ==
    [fn : {"interpolate_P_curve"}, p_values : PowerCurves,
     v_wind : WindSpeedArrays, rho : {1, StandardDensity, 64}]

\* logarithmic_wind_profile's arguments: obstacle heights up to above every
\* measurement height, among them those with 0.7 * obstacle_height equal to
\* the measurement height.
LogarithmicWindProfileArguments ==
    [fn : {"logarithmic_wind_profile"}, v_wind : {5},
     v_wind_height : 1..(7 * MaxHeight), hub_height : Heights, z_0 : {1},
     obstacle_height : 0..(10 * MaxHeight)]

\* The farms the WindFarm methods are called on: fleets of none, one or two
\* entries, of one to two turbines each.
FarmFleetEntries ==
    [wind_turbine : [hub_height : HubHeights, nominal_power : {0, 3}],
     number_of_turbines : {1, 2}]

FarmFleets == UNION { [1..n -> FarmFleetEntries] : n \in 0..2 }

WindFarmArguments ==
    { [fn |-> f, farm |-> WindFarmInit("farm", fleet)] :
      f \in {"mean_hub_height", "calculate_installed_power"},
      fleet \in FarmFleets }

\* The wind farm efficiencies: floats 0.0, 0.5, 0.9 and 1.0, the integers 0
\* and 1, None, and efficiency curves (of two points or of one) as a
\* dictionary or a data frame.
Efficiencies ==
    { Efficiency("float", x, <<>>) : x \in {0, 5, 9, 10} }
        \cup { Efficiency("int", x, <<>>) : x \in {0, 1} }
        \cup { Efficiency("NoneType", None, <<>>) }
        \cup { Efficiency(t, None, rows) :
               t \in {"dict", "DataFrame"},
               rows \in { <<[v |-> 1, e |-> 10],
                            [v |-> MaxHeight + 1, e |-> 8]>>,
                          <<[v |-> 2, e |-> 9]>> } }

WakeLossesArguments ==
    [fn : {"wake_losses_to_power_curve"}, power_curve : PowerCurves,
     wake_losses_method : {"constant_efficiency", "power_efficiency_curve",
                           "bogus"},
     wind_farm_efficiency : Efficiencies]

\* smooth_power_curve's arguments: the curves to smooth (one or two points
\* at wind speeds from 0 on, in steps of 0.5 m/s, at increasing wind speeds,
\* with non-negative power), block widths 0.5 and 1.0, wind speed
\* ranges 0.5 and 1.0, the method as the literal's object or as an equal
\* string, the keyword arguments and the turbulence intensity (0 or 0.1) the
\* key holds if it is among them.
SmoothPowerCurveArguments ==
    [fn : {"smooth_power_curve"},
     power_curve :
         { c \in UNION { [1..n -> [v : 0..MaxHeight, P : {0, 2}]] :
                         n \in 1..2 } :
             \A k \in 1..(Len(c) - 1) : c[k].v < c[k + 1].v },
     block_width : {1, 2}, wind_speed_range : {1, 2},
     standard_deviation_method : {"turbulence_intensity",
                                  "Staffell_Pfenninger", "bogus"},
     same_object : BOOLEAN,
     kwargs : Kwargs, turbulence_intensity : {0, 10}]

\* possible_curve_names: the seven tabulated curves.
possible_curve_names ==
    {<<"dena", "_", "mean">>, <<"dena", "_", "extreme1">>, <<"dena", "_", "extreme2">>,
     <<"knorr", "_", "mean">>, <<"knorr", "_", "extreme1">>, <<"knorr", "_", "extreme2">>,
     <<"knorr", "_", "extreme3">>}

\* The curve names: the seven tabulated ones, names of an origin that name
\* no tabulated curve (one of them a curve of the other origin's file), and
\* names of no origin.
WindEfficiencyArguments ==
    [fn : {"get_wind_efficiency_curve", "reduce_wind_speed"},
     curve_name :
         possible_curve_names
             \cup {<<"dena">>, <<"knorr">>, <<"dena", "_">>,
                   <<"dena", "_", "bogus">>, <<"dena", "_", "extreme3">>,
                   <<"knorr", "_", "extreme4">>,
                   <<"knorr", "_", "mean", "_", "2">>,
                   <<"dena", "_", "mean", "_">>, <<"wind", "_", "speed">>,
                   <<"mean">>, <<"_", "dena", "_", "mean">>,
                   <<"Dena", "_", "mean">>, <<"denamean">>, <<>>},
     wind_speed : WindSpeeds]

NoFunctionCall == [op |-> "none"]

\* The objects of each system while another one runs.
IdleFunctions ==
    /\ fn_args = [fn |-> "none"]
    /\ fn_call = NoFunctionCall

IdleTools ==
    /\ sel_args = CHOOSE a \in SelectArguments : TRUE
    /\ sel_call = NoSelection

IdleModelChain ==
    /\ mc = ModelChainInit(0, "logarithmic", "barometric", "p_values", FALSE, None)
    /\ wind_turbine = CHOOSE t \in WindTurbines : TRUE
    /\ weather = (CHOOSE i \in WeatherInputs : TRUE).weather
    /\ data_height = (CHOOSE i \in WeatherInputs : TRUE).data_height
    /\ mc_call = NoCall

IdleCluster ==
    /\ tc = NoChain
    /\ farms = <<>>
    /\ cluster = WindTurbineClusterInit
    /\ tc_call = NoCall

\* ------------------------------------------------- the ModelChain's system

\* The wind-speed parameters a chain is built with: an obstacle height with
\* the logarithmic profile, a Hellman exponent with the Hellman law.
WindConfigs ==
    { c \in [wind_model : {"logarithmic", "hellman", "bogus"},
             obstacle_height : {0, MaxHeight}, hellman_exp : {None, 2}] :
        /\ c.obstacle_height # 0 => c.wind_model = "logarithmic"
        /\ c.hellman_exp # None => c.wind_model = "hellman" }

Init ==
    /\ \E c \in WindConfigs, rm \in {"barometric", "ideal_gas", "bogus"},
          pm \in {"p_values", "cp_values", "bogus"}, dc \in BOOLEAN :
          mc = ModelChainInit(c.obstacle_height, c.wind_model, rm, pm, dc,
                              c.hellman_exp)
    /\ wind_turbine \in WindTurbines
    /\ \E i \in WeatherInputs :
          /\ weather = i.weather
          /\ data_height = i.data_height
    /\ mc_call = NoCall
    /\ IdleCluster
    /\ IdleTools
    /\ IdleFunctions

\* After a run the caller passes other weather and data_height objects.
NewWeather ==
    /\ mc_call.op = "run_model"
    /\ \E i \in WeatherInputs :
          /\ weather' = i.weather
          /\ data_height' = i.data_height
    /\ mc_call' = NoCall
    /\ UNCHANGED <<mc, wind_turbine>>
    /\ UNCHANGED <<tc_vars, tools_vars, fn_vars>>

\* mc.run_model(weather, data_height)
RunModel ==
    LET r == run_model(mc, wind_turbine, weather, data_height)
    IN  /\ mc' = [mc EXCEPT !.power_output = r.power_output]
        /\ weather' = r.weather
        /\ data_height' = r.data_height
        /\ mc_call' = [op |-> "run_model", err |-> r.err, stages |-> r.stages,
                       val |-> IF r.err = ""
                               THEN Some(r.power_output[Len(r.power_output)])
                               ELSE NoResult]
        /\ UNCHANGED wind_turbine
        /\ UNCHANGED <<tc_vars, tools_vars, fn_vars>>

\* mc.v_wind_hub(weather, data_height)
CallVWindHub ==
    LET r == v_wind_hub(mc, wind_turbine, weather, data_height)
    IN  /\ weather' = r.weather
        /\ data_height' = r.data_height
        /\ mc_call' = [op |-> "v_wind_hub", err |-> r.err,
                       stages |-> IF r.err = "" THEN <<"v_wind_hub">> ELSE <<>>,
                       val |-> r.val]
        /\ UNCHANGED <<mc, wind_turbine>>
        /\ UNCHANGED <<tc_vars, tools_vars, fn_vars>>

\* mc.rho_hub(weather, data_height)
CallRhoHub ==
    LET r == rho_hub(mc, wind_turbine, weather, data_height)
    IN  /\ weather' = r.weather
        /\ data_height' = r.data_height
        /\ mc_call' = [op |-> "rho_hub", err |-> r.err,
                       stages |-> IF r.err = "" THEN <<"rho_hub">> ELSE <<>>,
                       val |-> r.val]
        /\ UNCHANGED <<mc, wind_turbine>>
        /\ UNCHANGED <<tc_vars, tools_vars, fn_vars>>

Next == RunModel \/ CallVWindHub \/ CallRhoHub \/ NewWeather

Spec == Init /\ [][Next]_vars

\* ------------------------------------------- the cluster chain's system

InitCluster ==
    /\ IdleModelChain
    /\ tc = NoChain
    /\ \E f1 \in Fleets, f2 \in SingleTypeFleets :
          farms = <<WindFarmInit("farm_1", f1), WindFarmInit("farm_2", f2)>>
    /\ cluster = WindTurbineClusterInit
    /\ tc_call = NoCall
    /\ IdleTools
    /\ IdleFunctions

\* TurbineClusterModelChain(wind_object, ...) on the first farm or on the
\* cluster of the farms.
Construct ==
    /\ tc.status = "none"
    /\ \E kind \in {"WindFarm", "WindTurbineCluster"}, sm \in BOOLEAN,
          sd \in {"turbulence_intensity", "Staffell_Pfenninger"},
          so \in {"turbine_power_curves", "wind_farm_power_curves",
                  "cluster_power_curve"} :
          tc' = TurbineClusterModelChainInit(kind, "None", sm, sd, so)
    /\ UNCHANGED <<farms, cluster, tc_call>>
    /\ UNCHANGED <<mc_vars, tools_vars, fn_vars>>

\* chain.run_model(weather_df, **kwargs)
RunClusterModel ==
    /\ tc.status = "constructed"
    /\ \E kwargs \in Kwargs :
          LET r == cluster_run_model(tc, farms, cluster, kwargs)
          IN  /\ tc' = [tc EXCEPT !.power_output = r.power_output]
              /\ farms' = r.farms
              /\ cluster' = r.cluster
              /\ tc_call' = [op |-> "run_model", err |-> r.err,
                             stages |-> r.stages, val |-> NoResult,
                             entered |-> r.entered]
    /\ UNCHANGED <<mc_vars, tools_vars, fn_vars>>

\* chain.assign_power_curve(**kwargs)
AssignPowerCurve ==
    /\ tc.status = "constructed"
    /\ \E kwargs \in Kwargs :
          LET r == assign_power_curve(tc, farms, cluster, kwargs)
          IN  /\ farms' = r.farms
              /\ cluster' = r.cluster
              /\ tc_call' = [op |-> "assign_power_curve", err |-> r.err,
                             stages |-> <<>>, val |-> NoResult]
    /\ UNCHANGED tc
    /\ UNCHANGED <<mc_vars, tools_vars, fn_vars>>

NextCluster == Construct \/ RunClusterModel \/ AssignPowerCurve

SpecCluster == InitCluster /\ [][NextCluster]_vars

\* ------------------------------------------- select_closer_value's system

InitTools ==
    /\ IdleModelChain
    /\ IdleCluster
    /\ sel_args \in SelectArguments
    /\ sel_call = NoSelection
    /\ IdleFunctions

\* tools.select_closer_value(value_1, value_2, comp_value, corresp_1,
\* corresp_2)
CallSelectCloserValue ==
    /\ sel_call.op = "none"
    /\ sel_call' = [op |-> "select_closer_value",
                    result |-> select_closer_value(
                                   sel_args.value_1, sel_args.value_2, sel_args.comp_value,
                                   sel_args.corresp_1, sel_args.corresp_2)]
    /\ UNCHANGED sel_args
    /\ UNCHANGED <<mc_vars, tc_vars, fn_vars>>

NextTools == CallSelectCloserValue

SpecTools == InitTools /\ [][NextTools]_vars

\* ------------------------------------------------- a wind farm's system

\* A wind farm object whose fleet the caller changes between the calls of
\* mean_hub_height.
InitFarm ==
    /\ IdleModelChain
    /\ tc = NoChain
    /\ \E fleet \in FarmFleets : farms = <<WindFarmInit("farm", fleet)>>
    /\ cluster = WindTurbineClusterInit
    /\ tc_call = NoCall
    /\ IdleTools
    /\ IdleFunctions

\* The fleet list without its k-th entry.
Without(fleet, k) ==
    [i \in 1..(Len(fleet) - 1) |-> IF i < k THEN fleet[i] ELSE fleet[i + 1]]

\* farm.wind_turbine_fleet.append({...}) on a fleet of fewer than two types
AddTurbineType ==
    /\ Len(farms[1].wind_turbine_fleet) < 2
    /\ \E e \in FarmFleetEntries :
          farms' = <<[farms[1] EXCEPT !.wind_turbine_fleet = Append(@, e)]>>
    /\ tc_call' = [op |-> "change_fleet", err |-> "", before |-> NoResult]
    /\ UNCHANGED <<tc, cluster>>
    /\ UNCHANGED <<mc_vars, tools_vars, fn_vars>>

\* del farm.wind_turbine_fleet[k]
RemoveTurbineType ==
    /\ \E k \in DOMAIN farms[1].wind_turbine_fleet :
          farms' = <<[farms[1] EXCEPT !.wind_turbine_fleet = Without(@, k)]>>
    /\ tc_call' = [op |-> "change_fleet", err |-> "", before |-> NoResult]
    /\ UNCHANGED <<tc, cluster>>
    /\ UNCHANGED <<mc_vars, tools_vars, fn_vars>>

\* farm.wind_turbine_fleet[k]['number_of_turbines'] = n
RecountTurbineType ==
    /\ \E k \in DOMAIN farms[1].wind_turbine_fleet, n \in {1, 2} :
          farms' = <<[farms[1] EXCEPT
                         !.wind_turbine_fleet[k].number_of_turbines = n]>>
    /\ tc_call' = [op |-> "change_fleet", err |-> "", before |-> NoResult]
    /\ UNCHANGED <<tc, cluster>>
    /\ UNCHANGED <<mc_vars, tools_vars, fn_vars>>

\* farm.mean_hub_height()
FarmMeanHubHeight ==
    /\ LET r == FarmAfterMeanHubHeight(farms[1], mean_hub_height(farms[1]))
       IN  /\ farms' = <<r.farm>>
           /\ tc_call' = [op |-> "mean_hub_height", err |-> r.err,
                          before |-> farms[1].hub_height]
    /\ UNCHANGED <<tc, cluster>>
    /\ UNCHANGED <<mc_vars, tools_vars, fn_vars>>

NextFarm ==
    \/ AddTurbineType
    \/ RemoveTurbineType
    \/ RecountTurbineType
    \/ FarmMeanHubHeight

SpecFarm == InitFarm /\ [][NextFarm]_vars

\* ------------------------------------------- the library functions' system

InitFunctions ==
    /\ IdleModelChain
    /\ IdleCluster
    /\ IdleTools
    /\ \/ fn_args \in TpoThroughPArguments
       \/ fn_args \in InterpolatePCurveArguments
       \/ fn_args \in LogarithmicWindProfileArguments
       \/ fn_args \in WindFarmArguments
       \/ fn_args \in WakeLossesArguments
       \/ fn_args \in SmoothPowerCurveArguments
       \/ fn_args \in WindEfficiencyArguments
    /\ fn_call = NoFunctionCall

\* power_output.tpo_through_P(p_values, v_wind)
CallTpoThroughP ==
    /\ fn_args.fn = "tpo_through_P"
    /\ fn_call.op = "none"
    /\ LET r == tpo_through_P(fn_args.p_values, fn_args.v_wind)
       IN  fn_call' = [op |-> "tpo_through_P", err |-> "",
                       power |-> r.power, v_wind |-> r.v_wind]
    /\ UNCHANGED fn_args
    /\ UNCHANGED <<mc_vars, tc_vars, tools_vars>>

\* power_output.interpolate_P_curve(v_wind, rho_hub, p_values)
CallInterpolatePCurve ==
    /\ fn_args.fn = "interpolate_P_curve"
    /\ fn_call.op = "none"
    /\ fn_call' = [op |-> "interpolate_P_curve", err |-> "",
                   power |-> interpolate_P_curve(
                                 fn_args.v_wind,
                                 [i \in DOMAIN fn_args.v_wind |-> fn_args.rho],
                                 fn_args.p_values)]
    /\ UNCHANGED fn_args
    /\ UNCHANGED <<mc_vars, tc_vars, tools_vars>>

\* wind_speed.logarithmic_wind_profile(v_wind, v_wind_height, hub_height,
\* z_0, obstacle_height)
CallLogarithmicWindProfile ==
    /\ fn_args.fn = "logarithmic_wind_profile"
    /\ fn_call.op = "none"
    /\ LET r == logarithmic_wind_profile(
                    fn_args.v_wind, fn_args.v_wind_height, fn_args.hub_height,
                    fn_args.z_0, fn_args.obstacle_height)
       IN  fn_call' = [op |-> "logarithmic_wind_profile", err |-> r.err,
                       val |-> r.val]
    /\ UNCHANGED fn_args
    /\ UNCHANGED <<mc_vars, tc_vars, tools_vars>>

\* farm.mean_hub_height()
CallMeanHubHeight ==
    /\ fn_args.fn = "mean_hub_height"
    /\ fn_call.op = "none"
    /\ LET r == FarmAfterMeanHubHeight(fn_args.farm,
                                       mean_hub_height(fn_args.farm))
       IN  fn_call' = [op |-> "mean_hub_height", err |-> r.err,
                       farm |-> r.farm]
    /\ UNCHANGED fn_args
    /\ UNCHANGED <<mc_vars, tc_vars, tools_vars>>

\* farm.calculate_installed_power()
CallCalculateInstalledPower ==
    /\ fn_args.fn = "calculate_installed_power"
    /\ fn_call.op = "none"
    /\ fn_call' = [op |-> "calculate_installed_power", err |-> "",
                   farm |-> calculate_installed_power(fn_args.farm)]
    /\ UNCHANGED fn_args
    /\ UNCHANGED <<mc_vars, tc_vars, tools_vars>>

\* power_curves.wake_losses_to_power_curve(...)
CallWakeLossesToPowerCurve ==
    /\ fn_args.fn = "wake_losses_to_power_curve"
    /\ fn_call.op = "none"
    /\ LET r == wake_losses_to_power_curve(fn_args.power_curve,
                                           fn_args.wake_losses_method,
                                           fn_args.wind_farm_efficiency)
       IN  fn_call' = [op |-> "wake_losses_to_power_curve", err |-> r.err,
                       val |-> r.val]
    /\ UNCHANGED fn_args
    /\ UNCHANGED <<mc_vars, tc_vars, tools_vars>>

\* power_curves.smooth_power_curve(power_curve_wind_speeds,
\* power_curve_values, standard_deviation_method=..., **kwargs) on a turbine's
\* power curve
CallSmoothPowerCurve ==
    /\ fn_args.fn = "smooth_power_curve"
    /\ fn_call.op = "none"
    /\ LET r == smooth_power_curve(CurveValue("turbine", <<>>, <<>>, "None"),
                                   "turbine",
                                   fn_args.standard_deviation_method,
                                   fn_args.kwargs)
           df == smoothed_power_curve_df(
                     ExtendedCurve(fn_args.power_curve,
                                   fn_args.wind_speed_range),
                     fn_args.block_width, fn_args.wind_speed_range,
                     fn_args.standard_deviation_method, fn_args.same_object,
                     normalized_standard_deviation(
                         fn_args.standard_deviation_method,
                         fn_args.turbulence_intensity))
       IN  fn_call' = [op |-> "smooth_power_curve", err |-> r.err,
                       val |-> r.val,
                       rows |-> IF r.err = "" THEN df ELSE <<>>]
    /\ UNCHANGED fn_args
    /\ UNCHANGED <<mc_vars, tc_vars, tools_vars>>

\* wake_losses.get_wind_efficiency_curve(curve_name=...)
CallGetWindEfficiencyCurve ==
    /\ fn_args.fn = "get_wind_efficiency_curve"
    /\ fn_call.op = "none"
    /\ LET r == get_wind_efficiency_curve(fn_args.curve_name)
       IN  fn_call' = [op |-> "get_wind_efficiency_curve", err |-> r.err,
                       val |-> r.val]
    /\ UNCHANGED fn_args
    /\ UNCHANGED <<mc_vars, tc_vars, tools_vars>>

\* wake_losses.reduce_wind_speed(wind_speed, wind_efficiency_curve_name=...)
CallReduceWindSpeed ==
    /\ fn_args.fn = "reduce_wind_speed"
    /\ fn_call.op = "none"
    /\ LET r == reduce_wind_speed(fn_args.wind_speed, fn_args.curve_name)
       IN  fn_call' = [op |-> "reduce_wind_speed", err |-> r.err,
                       val |-> r.val]
    /\ UNCHANGED fn_args
    /\ UNCHANGED <<mc_vars, tc_vars, tools_vars>>

NextFunctions ==
    \/ CallTpoThroughP
    \/ CallInterpolatePCurve
    \/ CallLogarithmicWindProfile
    \/ CallMeanHubHeight
    \/ CallCalculateInstalledPower
    \/ CallWakeLossesToPowerCurve
    \/ CallSmoothPowerCurve
    \/ CallGetWindEfficiencyCurve
    \/ CallReduceWindSpeed

SpecFunctions == InitFunctions /\ [][NextFunctions]_vars

\* ------------------------------------------------ claims on the ModelChain

ValidRhoModels == {"barometric", "ideal_gas"}
ValidWindModels == {"logarithmic", "hellman"}

\* C1: a run_model call in which a stage fails leaves power_output exactly as
\* it was before the call, and power_output changes only by a successful
\* run, to that run's result (so it is None until a run succeeds, and the
\* last successful run's result afterwards).
C1_FailedRunKeepsOutput ==
    [][ /\ (mc_call'.op = "run_model" /\ mc_call'.err # "")
            => mc'.power_output = mc.power_output
        /\ mc'.power_output # mc.power_output
            => /\ mc_call'.op = "run_model"
               /\ mc_call'.err = ""
               /\ mc'.power_output = mc_call'.val ]_vars

\* C1 witness: a run failed on a chain that holds an earlier run's output.
C1_Witness ==
    /\ mc_call.op = "run_model"
    /\ mc_call.err # ""
    /\ mc.power_output # NoResult

C3_OutputAttachedToTurbine ==
    (mc_call.op = "run_model" /\ mc_call.err = "")
        => wind_turbine.power_output = mc_call.val

\* C4 (as claimed): a run of a chain whose rho_model is not an allowed value
\* raises before any stage result is computed, and writes no power_output.
C4_InvalidRhoModelRaisesFirst ==
    (mc.rho_model \notin ValidRhoModels /\ mc_call.op = "run_model")
        => /\ mc_call.err = "ValueError"
           /\ mc_call.stages = <<>>
           /\ mc.power_output = NoResult

\* C5 (as claimed): every v_wind_hub or run_model call on a chain whose
\* wind_model is not an allowed value ends in a configuration error,
\* whatever the measurement heights are.
C5_InvalidWindModelRaises ==
    (mc.wind_model \notin ValidWindModels
        /\ mc_call.op \in {"v_wind_hub", "run_model"})
        => mc_call.err = "ValueError"

\* The turbine has no curve for the chain's power_output_model.
SelectedCurveMissing ==
    \/ mc.power_output_model = "cp_values" /\ wind_turbine.cp_values = None
    \/ mc.power_output_model = "p_values" /\ wind_turbine.p_values = None

\* C12: with power_output_model 'cp_values' and no cp_values, or 'p_values'
\* and no p_values, turbine_power_output raises TypeError whether or not the
\* turbine has the other curve; a run_model then raises, with that error
\* once the wind speed and density stages have returned, and writes no
\* power_output.
C12_MissingCurveRaises ==
    SelectedCurveMissing
        => /\ turbine_power_output(mc, wind_turbine, weather.v_wind,
                                   RhoNone).err = "TypeError"
           /\ mc.power_output = NoResult
           /\ mc_call.op = "run_model"
                => /\ mc_call.err # ""
                   /\ mc_call.val = NoResult
                   /\ (mc_call.stages # <<>>
                          /\ (NeedsDensity(mc) => Len(mc_call.stages) = 2))
                        => mc_call.err = "TypeError"

\* C12 witness: a run with power_output_model 'p_values' on a turbine that has
\* cp_values but no p_values got through the wind speed stage and raised
\* TypeError.
C12_Witness ==
    /\ mc_call.op = "run_model"
    /\ mc.power_output_model = "p_values"
    /\ wind_turbine.p_values = None
    /\ wind_turbine.cp_values # None
    /\ mc_call.stages # <<>>
    /\ mc_call.err = "TypeError"

\* C14 (as claimed): a v_wind_hub call of a chain with wind_model 'hellman'
\* on a measurement away from hub height applies the chain's hellman_exp if
\* one was given, otherwise 1/ln(hub_height/z0) with the weather's roughness
\* length, otherwise 1/7.
C14_HellmanExponentApplied ==
    (/\ mc_call.op = "v_wind_hub"
     /\ mc.wind_model = "hellman"
     /\ mc_call.err = ""
     /\ mc_call.val[1].f # "measured")
        => LET r == mc_call.val[1]
           IN  IF mc.hellman_exp # None
               THEN r.f = "hellman_given" /\ r.e = mc.hellman_exp
               ELSE IF weather.z0 # None
               THEN r.f = "hellman_z0" /\ r.z0 = weather.z0
               ELSE r.f = "hellman_seventh"

\* C26 (as claimed): v_wind_hub, rho_hub and run_model leave the caller's
\* weather and data_height mappings as they were (same keys, same values),
\* and tpo_through_P leaves the caller's wind speed array as it was.
C26_OperationsLeaveInputsUnchanged ==
    [][ /\ mc_call'.op \in {"v_wind_hub", "rho_hub", "run_model"}
            => weather' = weather /\ data_height' = data_height
        /\ fn_call'.op = "tpo_through_P"
            => fn_call'.v_wind = fn_args.v_wind ]_vars

\* The (height, series) measurements of the keys key and key_2 that are at
\* the turbine's hub height.
AtHub(key, key_2) ==
    {m \in {<<data_height[key], weather[key]>>,
            <<data_height[key_2], weather[key_2]>>} :
        m[1] = wind_turbine.hub_height /\ m[2] \notin {None, Absent}}

\* C27: if a wind speed measurement is at hub height (it is then the closest
\* one), v_wind_hub returns that measured series as it is and raises
\* nothing, whatever wind_model and obstacle_height are; if a temperature
\* measurement is at hub height, rho_hub takes that measured temperature as
\* the hub temperature; and temperature_gradient(T, h, h) is T.
C27_HubHeightMeasurementSkipsModel ==
    /\ (mc_call.op = "v_wind_hub" /\ AtHub("v_wind", "v_wind_2") # {})
          => /\ mc_call.err = ""
             /\ mc_call.val[1].f = "measured"
             /\ <<mc_call.val[1].h, mc_call.val[1].v>>
                    \in AtHub("v_wind", "v_wind_2")
    /\ (mc_call.op = "rho_hub" /\ mc_call.err = ""
            /\ AtHub("temp_air", "temp_air_2") # {})
          => \E m \in AtHub("temp_air", "temp_air_2") :
                mc_call.val[1].temp_hub = m[2]
    /\ \A h \in Heights :
          /\ temperature_gradient(weather.temp_air, h, h) = weather.temp_air
          /\ weather.temp_air_2 \notin {None, Absent}
                => temperature_gradient(weather.temp_air_2, h, h)
                       = weather.temp_air_2

\* C27 witness: a v_wind_hub call with the logarithmic profile and an obstacle
\* height that the profile rejects at the measurement height returned the
\* series measured at hub height, the second of two measurements.
C27_Witness ==
    /\ mc_call.op = "v_wind_hub"
    /\ mc.wind_model = "logarithmic"
    /\ ObstacleAboveSensor(mc.obstacle_height, wind_turbine.hub_height)
    /\ data_height.v_wind # wind_turbine.hub_height
    /\ data_height.v_wind_2 = wind_turbine.hub_height
    /\ mc_call.err = ""
    /\ mc_call.val[1].v = weather.v_wind_2

\* ------------------------------------------- claims on the cluster chain

\* The chain was given a WindFarm and smoothing_order 'cluster_power_curve'.
FarmWithClusterOrder ==
    tc.kind = "WindFarm" /\ tc.smoothing_order = "cluster_power_curve"

\* C6: constructing a TurbineClusterModelChain on a WindFarm with
\* smoothing_order 'cluster_power_curve' raises, whatever smoothing is, and
\* no run_model or assign_power_curve is executed on such a chain; with a
\* WindTurbineCluster the same smoothing_order constructs the chain.
C6_FarmWithClusterOrderRaises ==
    /\ FarmWithClusterOrder
        => /\ tc.status = "raised"
           /\ tc_call.op = "none"
           /\ \A k \in DOMAIN farms : farms[k].power_curve = NoResult
    /\ (tc.kind = "WindTurbineCluster"
            /\ tc.smoothing_order = "cluster_power_curve")
        => tc.status = "constructed"

\* C6 witness: the construction on a WindFarm with the cluster order and
\* smoothing switched off has raised.
C6_Witness ==
    /\ FarmWithClusterOrder
    /\ ~tc.smoothing
    /\ tc.status = "raised"

\* C7 (as claimed): a cluster chain's run_model that fails in the delegated
\* ModelChain run, after the power curve assignment, leaves the chain's
\* power_output and the farms' and the cluster's hub_height,
\* installed_power and power_curve as they were before the call.
C7_FailedRunLeavesNoPartialResults ==
    [][ (/\ tc_call'.op = "run_model"
         /\ tc_call'.err # ""
         /\ tc_call'.stages # <<>>
         /\ tc_call'.stages[1] = "assign_power_curve")
        => /\ tc'.power_output = tc.power_output
           /\ farms' = farms
           /\ cluster' = cluster ]_vars

\* The stages of a cluster chain's run_model in the claimed order: the power
\* curve assignment, the construction of the ModelChain, and that chain's
\* wind speed, density (unless skipped) and power output stages.
ClusterStageOrder ==
    <<"assign_power_curve", "ModelChain">> \o RunModelStages(DelegatedChain)

\* s is the beginning of t.
IsPrefix(s, t) ==
    Len(s) <= Len(t) /\ \A i \in DOMAIN s : s[i] = t[i]

\* C24 (as claimed): in every run_model call of a cluster chain the stages
\* run in the order power curve assignment, wind speed, density (skipped
\* exactly when power_output_model is 'p_values' and density_corr is False),
\* power output: once the assignment has completed the wind speed stage of
\* the delegated ModelChain is entered, a call fails only in a stage it has
\* entered, and power_output is written only by a call all of whose stages
\* returned.
C24_ClusterStagesInOrder ==
    [][ tc_call'.op = "run_model"
          => /\ IsPrefix(tc_call'.stages, ClusterStageOrder)
             /\ IsPrefix(tc_call'.entered, ClusterStageOrder)
             /\ (tc_call'.stages # <<>>) => "v_wind_hub" \in
                    {tc_call'.entered[i] : i \in DOMAIN tc_call'.entered}
             /\ tc'.power_output # tc.power_output
                    => tc_call'.stages = ClusterStageOrder ]_vars

\* The number of times the curve was smoothed at the level.
TimesSmoothedAt(curve, level) ==
    Cardinality({i \in DOMAIN curve.smoothed : curve.smoothed[i] = level})

\* The chain smooths the cluster power curve.
SmoothsClusterCurve ==
    tc.smoothing /\ tc.smoothing_order = "cluster_power_curve"

\* C30: whenever turbine_cluster_power_curve gives the cluster a power curve,
\* every member farm has its farm power curve assigned and the cluster curve
\* is the sum of exactly these curves; the sum was smoothed at cluster level
\* once if smoothing is True and smoothing_order is 'cluster_power_curve',
\* and not at all at cluster level otherwise.
C30_FarmCurvesBeforeClusterCurve ==
    [][ (cluster'.power_curve # cluster.power_curve)
          => /\ \A k \in DOMAIN farms' : farms'[k].power_curve # NoResult
             /\ cluster'.power_curve # NoResult
             /\ cluster'.power_curve[1].parts
                    = [k \in DOMAIN farms' |-> farms'[k].power_curve[1]]
             /\ TimesSmoothedAt(cluster'.power_curve[1], "cluster")
                    = IF SmoothsClusterCurve THEN 1 ELSE 0 ]_vars

\* C30 witness: a cluster whose power curve was assigned and smoothed at
\* cluster level, all of its farms having their curves.
C30_Witness ==
    /\ tc_call.op = "assign_power_curve"
    /\ SmoothsClusterCurve
    /\ cluster.power_curve # NoResult
    /\ TimesSmoothedAt(cluster.power_curve[1], "cluster") = 1
    /\ \A k \in DOMAIN farms : farms[k].power_curve # NoResult

\* ---------------------------------------- claims on select_closer_value

\* A call of select_closer_value has been made.
Called == sel_call.op = "select_closer_value"

\* Both candidates are present, and the comparative value is a height.
TwoCandidates ==
    /\ sel_args.value_1 # None /\ sel_args.corresp_1 # None
    /\ sel_args.value_2 # None /\ sel_args.corresp_2 # None
    /\ sel_args.comp_value # None

\* C8: with two candidates select_closer_value returns the height with the
\* smaller absolute difference to comp_value and the series of that height:
\* value_1 and corresp_1 if value_1 equals comp_value, whatever value_2 is;
\* value_2 and corresp_2 if only value_2 equals comp_value; value_1 and
\* corresp_1 on equal distance.
C8_ClosestOfTwoCandidates ==
    (Called /\ TwoCandidates)
        => LET r == sel_call.result
               d1 == Abs(sel_args.value_1 - sel_args.comp_value)
               d2 == Abs(sel_args.value_2 - sel_args.comp_value)
               first == r.closest_value = sel_args.value_1
                            /\ r.corresp_value = sel_args.corresp_1
               second == r.closest_value = sel_args.value_2
                             /\ r.corresp_value = sel_args.corresp_2
           IN  /\ r.err = ""
               /\ first \/ second
               /\ Abs(r.closest_value - sel_args.comp_value) <= d1
               /\ Abs(r.closest_value - sel_args.comp_value) <= d2
               /\ sel_args.value_1 = sel_args.comp_value => first
               /\ (sel_args.value_2 = sel_args.comp_value
                      /\ sel_args.value_1 # sel_args.comp_value) => second
               /\ d1 = d2 => first

\* C8 witness: two different heights at the same distance on either side of
\* comp_value, with different series; the first was returned.
C8_Witness ==
    /\ Called /\ TwoCandidates
    /\ sel_args.value_1 # sel_args.value_2
    /\ sel_args.corresp_1 # sel_args.corresp_2
    /\ Abs(sel_args.value_1 - sel_args.comp_value) = Abs(sel_args.value_2 - sel_args.comp_value)
    /\ sel_call.result.closest_value = sel_args.value_1

\* C9 (as claimed): with one candidate (value_2 or corresp_2 is None, value_1
\* is a height) select_closer_value returns value_1 and corresp_1 without
\* an error for every height comp_value.
C9_SingleCandidateReturned ==
    (/\ Called
     /\ sel_args.value_2 = None \/ sel_args.corresp_2 = None
     /\ sel_args.value_1 # None
     /\ sel_args.comp_value # None)
        => /\ sel_call.result.err = ""
           /\ sel_call.result.closest_value = sel_args.value_1
           /\ sel_call.result.corresp_value = sel_args.corresp_1

\* The exception the library raises for an invalid argument.
InvalidInputErrors == {"ValueError"}

\* C10 (as claimed): with value_1 and value_2 both None select_closer_value
\* raises an invalid-input error for every comp_value, None included, and
\* returns nothing.
C10_NoCandidateRaises ==
    (Called /\ sel_args.value_1 = None /\ sel_args.value_2 = None)
        => sel_call.result.err \in InvalidInputErrors

\* -------------------------------------- claims on the library functions

\* The value of the quotient q is the integer n.
IsInteger(q, n) == q.den > 0 /\ q.num = n * q.den

\* The value of the quotient q is the curve's linear interpolation at v, a
\* wind speed inside the curve's domain.
IsInterpolation(q, curve, v) ==
    /\ q.den > 0
    /\ \/ \E k \in DOMAIN curve : curve[k].v = v /\ IsInteger(q, curve[k].P)
       \/ \E k \in 1..(Len(curve) - 1) :
             /\ curve[k].v < v /\ v < curve[k + 1].v
             /\ q.num * (curve[k + 1].v - curve[k].v)
                    = q.den * (curve[k].P * (curve[k + 1].v - curve[k].v)
                               + (curve[k + 1].P - curve[k].P) * (v - curve[k].v))

\* C11: tpo_through_P returns, for every wind speed of the array, the linear
\* interpolation of the power curve inside the curve's domain, the power at
\* the maximum wind speed above the domain and the power at the minimum
\* wind speed below it.
C11_PowerCurveClampsAtBoundary ==
    fn_call.op = "tpo_through_P"
        => LET curve == fn_args.p_values
               last == curve[Len(curve)]
           IN  /\ fn_call.err = ""
               /\ DOMAIN fn_call.power = DOMAIN fn_args.v_wind
               /\ \A i \in DOMAIN fn_args.v_wind :
                     LET v == fn_args.v_wind[i]
                         q == fn_call.power[i]
                     IN  /\ v > last.v => IsInteger(q, last.P)
                         /\ v < curve[1].v => IsInteger(q, curve[1].P)
                         /\ (curve[1].v <= v /\ v <= last.v)
                                => IsInterpolation(q, curve, v)

\* C11 witness: a wind speed above the curve's domain was evaluated on a
\* curve with more than one point that ends with a positive power.
C11_Witness ==
    /\ fn_call.op = "tpo_through_P"
    /\ Len(fn_args.p_values) > 1
    /\ fn_args.p_values[Len(fn_args.p_values)].P > 0
    /\ \E i \in DOMAIN fn_args.v_wind :
          /\ fn_args.v_wind[i] > fn_args.p_values[Len(fn_args.p_values)].v
          /\ fn_call.power[i].num > 0

\* C13: logarithmic_wind_profile raises ValueError and returns no wind speed
\* exactly when 0.7 * obstacle_height is greater than v_wind_height; up to
\* and including equality it raises nothing and returns a wind speed.
C13_ObstacleAboveSensorRaises ==
    fn_call.op = "logarithmic_wind_profile"
        => IF 7 * fn_args.obstacle_height > 10 * fn_args.v_wind_height
           THEN fn_call.err = "ValueError" /\ fn_call.val = NoResult
           ELSE fn_call.err = "" /\ fn_call.val # NoResult

\* C13 witness: a call with an obstacle height above zero and 0.7 of it
\* above the measurement height has raised.
C13_Witness ==
    /\ fn_call.op = "logarithmic_wind_profile"
    /\ fn_args.obstacle_height > 0
    /\ 7 * fn_args.obstacle_height > 10 * fn_args.v_wind_height
    /\ fn_call.err = "ValueError"

\* C15 (as claimed): mean_hub_height raises (ValueError, or the division's
\* ZeroDivisionError) whenever the fleet's total nominal power is zero, for an
\* empty fleet and for a fleet of turbines of nominal power 0, and assigns no
\* hub height.
C15_ZeroPowerFleetRaises ==
    (/\ fn_call.op = "mean_hub_height"
     /\ total_nominal_power(fn_args.farm.wind_turbine_fleet) = 0)
        => /\ fn_call.err \in {"ValueError", "ZeroDivisionError"}
           /\ fn_call.farm.hub_height = NoResult

\* C16 (as claimed): after calculate_installed_power() the farm's
\* installed_power is the sum of nominal_power * number_of_turbines over its
\* fleet.
C16_InstalledPowerIsFleetSum ==
    fn_call.op = "calculate_installed_power"
        => fn_call.farm.installed_power
               = Some(total_nominal_power(fn_call.farm.wind_turbine_fleet))

\* The fleet has entries, all of one turbine type with a positive nominal
\* power.
SingleTurbineType(fleet) ==
    /\ Len(fleet) > 0
    /\ \A k \in DOMAIN fleet :
          /\ fleet[k].wind_turbine = fleet[1].wind_turbine
          /\ fleet[k].wind_turbine.nominal_power > 0
          /\ fleet[k].number_of_turbines >= 1

\* C17 (as claimed): the hub height mean_hub_height assigns to a farm of a
\* single turbine type with positive nominal power equals that turbine's
\* hub height, for every number of turbines.
C17_SingleTypeMeanIsHubHeight ==
    (/\ fn_call.op = "mean_hub_height"
     /\ SingleTurbineType(fn_args.farm.wind_turbine_fleet))
        => /\ fn_call.err = ""
           /\ fn_call.farm.hub_height
                  = Some(ExactHeight(
                        fn_args.farm.wind_turbine_fleet[1].wind_turbine.hub_height))

\* A call of wake_losses_to_power_curve with 'constant_efficiency' was made.
ConstantEfficiencyCalled ==
    /\ fn_call.op = "wake_losses_to_power_curve"
    /\ fn_args.wake_losses_method = "constant_efficiency"

\* The returned frame has the input's rows, in order, with the same wind
\* speeds and the power times the efficiency (tenths) e.
ScaledBy(e) ==
    /\ fn_call.err = ""
    /\ DOMAIN fn_call.val[1] = DOMAIN fn_args.power_curve
    /\ \A i \in DOMAIN fn_args.power_curve :
          /\ fn_call.val[1][i].wind_speed = fn_args.power_curve[i].v
          /\ fn_call.val[1][i].power.den > 0
          /\ fn_call.val[1][i].power.num * 10
                 = fn_args.power_curve[i].P * e * fn_call.val[1][i].power.den

C19_OnlyNonScalarsRejected ==
    ConstantEfficiencyCalled
        => IF fn_args.wind_farm_efficiency.type \in {"float", "int"}
           THEN ScaledBy(IF fn_args.wind_farm_efficiency.type = "int"
                         THEN 10 * fn_args.wind_farm_efficiency.value
                         ELSE fn_args.wind_farm_efficiency.value)
           ELSE fn_call.err = "TypeError"

\* C20 (as claimed): smooth_power_curve with 'turbulence_intensity' and no
\* turbulence_intensity parameter raises the configuration error (ValueError)
\* and returns no curve, and so does a standard_deviation_method that is
\* neither 'turbulence_intensity' nor 'Staffell_Pfenninger'.
C20_InvalidSmoothingConfigurationRaises ==
    (/\ fn_call.op = "smooth_power_curve"
     /\ \/ /\ fn_args.standard_deviation_method = "turbulence_intensity"
           /\ "turbulence_intensity" \notin fn_args.kwargs
        \/ fn_args.standard_deviation_method
               \notin {"turbulence_intensity", "Staffell_Pfenninger"})
        => /\ fn_call.err = "ValueError"
           /\ fn_call.val = NoResult

\* A call of smooth_power_curve has returned a curve.
Smoothed == fn_call.op = "smooth_power_curve" /\ fn_call.err = ""

\* The standard deviation of the kernel is 0 at the wind speed v of a
\* returned curve.
KernelUndefined(v) ==
    standard_deviation(v, fn_args.standard_deviation_method,
                       fn_args.same_object,
                       normalized_standard_deviation(
                           fn_args.standard_deviation_method,
                           fn_args.turbulence_intensity)) = 0

\* C21: every power value of a curve returned by smooth_power_curve is a
\* number >= 0, never NaN, and it is 0 where the kernel's standard deviation
\* is 0; the curve has the input's wind speeds followed by the appended ones.
C21_SmoothedPowerIsNonNegative ==
    Smoothed
        => /\ Len(fn_call.rows)
                  = Len(fn_args.power_curve) + fn_args.wind_speed_range
           /\ \A i \in DOMAIN fn_call.rows :
                 /\ fn_call.rows[i].power \in {"zero", "positive"}
                 /\ KernelUndefined(fn_call.rows[i].wind_speed)
                        => fn_call.rows[i].power = "zero"
           /\ \A i \in DOMAIN fn_args.power_curve :
                 fn_call.rows[i].wind_speed = fn_args.power_curve[i].v

\* C21 witness: a curve that starts at wind speed 0 with a positive power was
\* smoothed with a positive turbulence intensity: the value at wind speed 0
\* is 0, and a value further on is positive.
C21_Witness ==
    /\ Smoothed
    /\ fn_args.standard_deviation_method = "turbulence_intensity"
    /\ fn_args.turbulence_intensity > 0
    /\ fn_args.power_curve[1] = [v |-> 0, P |-> 2]
    /\ fn_call.rows[1].power = "zero"
    /\ \E i \in DOMAIN fn_call.rows : fn_call.rows[i].power = "positive"

\* C22: get_wind_efficiency_curve returns the efficiency curve of each of the
\* seven tabulated names and raises ValueError for every other name, also
\* for one that starts with 'dena_' or 'knorr_'; reduce_wind_speed returns a
\* wind speed for the seven names and raises, returning nothing, for the
\* others.
C22_OnlyTabulatedCurveNames ==
    fn_call.op \in {"get_wind_efficiency_curve", "reduce_wind_speed"}
        => IF fn_args.curve_name \in possible_curve_names
           THEN /\ fn_call.err = ""
                /\ fn_call.val # NoResult
                /\ fn_call.val[1].efficiency = fn_args.curve_name
           ELSE /\ fn_call.err = "ValueError"
                /\ fn_call.val = NoResult

\* C22 witness: reduce_wind_speed was called with a name that starts with
\* 'dena_' and is no curve of the dena file, and raised.
C22_Witness ==
    /\ fn_call.op = "reduce_wind_speed"
    /\ Len(fn_args.curve_name) = 3
    /\ fn_args.curve_name[1] = "dena"
    /\ fn_args.curve_name[2] = "_"
    /\ fn_args.curve_name \notin possible_curve_names
    /\ fn_call.err = "ValueError"

\* A call of wake_losses_to_power_curve with 'power_efficiency_curve' was
\* made.
EfficiencyCurveCalled ==
    /\ fn_call.op = "wake_losses_to_power_curve"
    /\ fn_args.wake_losses_method = "power_efficiency_curve"

\* C23 (as claimed): with 'power_efficiency_curve' and the efficiency curve as
\* a dictionary with 'wind_speed' and 'efficiency' keys the call returns,
\* without an error, the reduced power curve it returns for a table of the
\* same values.
C23_DictionaryEfficiencyCurveAccepted ==
    (EfficiencyCurveCalled /\ fn_args.wind_farm_efficiency.type = "dict")
        => /\ fn_call.err = ""
           /\ fn_call.val
                  = wake_losses_to_power_curve(
                        fn_args.power_curve, fn_args.wake_losses_method,
                        Efficiency("DataFrame", None,
                                   fn_args.wind_farm_efficiency.rows)).val

\* The quotients p and q have the same value.
SameValue(p, q) == p.den > 0 /\ q.den > 0 /\ p.num * q.den = q.num * p.den

\* C25 (as claimed): interpolate_P_curve returns the power at the curve's
\* maximum wind speed for every wind speed above the maximum of the density
\* shifted curve, for every density, and for the density 1.225 the power that
\* tpo_through_P returns, at every wind speed.
C25_DensityCorrectedCurveClamps ==
    fn_call.op = "interpolate_P_curve"
        => LET curve == fn_args.p_values
               last == curve[Len(curve)]
           IN  \A i \in DOMAIN fn_args.v_wind :
                  /\ 2 * fn_args.v_wind[i] > last.v * DensityShift(fn_args.rho)
                        => IsInteger(fn_call.power[i], last.P)
                  /\ fn_args.rho = StandardDensity
                        => SameValue(fn_call.power[i],
                                     tpo_through_P(curve, fn_args.v_wind).power[i])

\* An efficiency can be interpolated at the wind speed v: v is at or between
\* wind speeds of the efficiency curve.
CanInterpolate(rows, v) == rows[1].v <= v /\ v <= rows[Len(rows)].v

\* The quotient q is the power P times the efficiency (in tenths) linearly
\* interpolated at v between the efficiency curve's points.
IsReducedPower(q, P, rows, v) ==
    /\ q.den > 0
    /\ \/ \E k \in DOMAIN rows :
             rows[k].v = v /\ q.num * 10 = P * rows[k].e * q.den
       \/ \E k \in 1..(Len(rows) - 1) :
             /\ rows[k].v < v /\ v < rows[k + 1].v
             /\ q.num * 10 * (rows[k + 1].v - rows[k].v)
                    = P * q.den
                        * (rows[k].e * (rows[k + 1].v - rows[k].v)
                           + (rows[k + 1].e - rows[k].e) * (v - rows[k].v))

\* C29 (as claimed): with 'power_efficiency_curve' and an efficiency table the
\* returned curve has wind speeds of the input power curve only, in
\* increasing order; a wind speed of the power curve is dropped exactly when
\* no efficiency can be interpolated for it; every kept row's power is the
\* input power times the linearly interpolated efficiency.
C29_RowsWithInterpolatedEfficiency ==
    (EfficiencyCurveCalled /\ fn_args.wind_farm_efficiency.type = "DataFrame")
        => LET curve == fn_args.power_curve
               rows == fn_args.wind_farm_efficiency.rows
               res == fn_call.val[1]
           IN  /\ fn_call.err = ""
               /\ \A i \in 1..(Len(res) - 1) :
                     res[i].wind_speed < res[i + 1].wind_speed
               /\ \A i \in DOMAIN res :
                     \E k \in DOMAIN curve :
                        /\ curve[k].v = res[i].wind_speed
                        /\ CanInterpolate(rows, curve[k].v)
                        /\ IsReducedPower(res[i].power, curve[k].P, rows,
                                          curve[k].v)
               /\ \A k \in DOMAIN curve :
                     CanInterpolate(rows, curve[k].v)
                        => \E i \in DOMAIN res :
                              res[i].wind_speed = curve[k].v

\* ------------------------------------------------ claims on a wind farm

\* The sum of nominal_power * number_of_turbines over the fleet's entries
\* with the hub height h.
PowerAtHeight(fleet, h) ==
    LET S[k \in 0..Len(fleet)] ==
            IF k = 0 THEN 0
            ELSE S[k - 1] + (IF fleet[k].wind_turbine.hub_height = h
                             THEN fleet[k].wind_turbine.nominal_power
                                  * fleet[k].number_of_turbines
                             ELSE 0)
    IN  S[Len(fleet)]

\* The value m is exp(sum(ln(h_k) * P_k * n_k) / sum(P_k * n_k)) over the
\* fleet: a number in which ln(h) has the share of the power at height h.
IsLogMeanOf(m, fleet) ==
    /\ ~m.nan
    /\ \E h \in HubHeights : m.w[h] > 0
    /\ \A h1 \in HubHeights, h2 \in HubHeights :
          m.w[h1] * PowerAtHeight(fleet, h2) = m.w[h2] * PowerAtHeight(fleet, h1)

\* C28: whatever changes were made to the fleet and whatever mean_hub_height
\* calls came before, a mean_hub_height call on a fleet with nominal power
\* assigns as hub_height the power weighted logarithmic mean of the fleet as
\* it is at the call.
C28_MeanHubHeightRecomputed ==
    [][ (/\ tc_call'.op = "mean_hub_height"
         /\ \E h \in HubHeights :
               PowerAtHeight(farms[1].wind_turbine_fleet, h) > 0)
          => /\ tc_call'.err = ""
             /\ farms'[1].wind_turbine_fleet = farms[1].wind_turbine_fleet
             /\ farms'[1].hub_height # NoResult
             /\ IsLogMeanOf(farms'[1].hub_height[1],
                            farms[1].wind_turbine_fleet) ]_vars

\* C28 witness: a call assigned a hub height other than the one an earlier
\* call had assigned to the farm.
C28_Witness ==
    /\ tc_call.op = "mean_hub_height"
    /\ tc_call.err = ""
    /\ tc_call.before # NoResult
    /\ ~tc_call.before[1].nan
    /\ ~farms[1].hub_height[1].nan
    /\ tc_call.before # farms[1].hub_height

====
